---- MODULE Spec2Model ----
(***************************************************************************)
(* Webhook reconciliation and subscription lifecycle of the WOPR GitHub    *)
(* plugin (src/index.ts, kept here as src/unnamed/part_001 lines 569-2222).*)
(*                                                                         *)
(* The remote platform is a map from a scope ("orgs/acme", "repos/o/r")    *)
(* to the ordered list of its hooks.  Every gh invocation of an operation  *)
(* is appended to the operation's call log, and succeeds or fails as the   *)
(* environment decides.                                                    *)
(***************************************************************************)
EXTENDS Integers, Sequences, FiniteSets, TLC

VARIABLES
    remote,         \* scope -> sequence of hooks [id, url] held by GitHub
    nextId,         \* next hook id GitHub hands out
    hostname,       \* funnel.getHostname(): "" when there is none
    whConfig,       \* webhooks.getConfig(): [present, basePath, token]
    ctx,            \* module variable `ctx`: TRUE between init and shutdown
    subscriptions,  \* the in-memory Map<string, RepoSubscription>
    storage,        \* module variable `storage`: TRUE when the Storage API is held
    table,          \* rows of the github_subscriptions table, by key
    legacyFile,     \* data/subscriptions.json: [state, content]
    last,           \* the operation that ran last: arguments, result, call log
    prev,           \* when the last setupOrgWebhook repeated the run before it
                    \* (same org, same URL, no call failed): that run's result
    vOrg,           \* the string handed to validateOrg
    vRes,           \* what validateOrg returned for it
    config,         \* ctx.getConfig(): [present, hasRouting, routing,
                    \* prReviewSession, releaseSession]
    route,          \* the event handed to the router last, and its answer
    handlers,       \* the module's webhooksReadyHandler and
                    \* hostnameChangedHandler: whether each is set
    pluginCtx,      \* the host's side of the context: whether it has an event
                    \* emitter, the plugin's listeners on it per event, and
                    \* whether the "github" extension is registered
    removed,        \* history: the repositories the extension's unsubscribe
                    \* removed, with no successful subscribe since
    tasks           \* the invocations suspended at an await, by caller

vars == <<remote, nextId, hostname, whConfig, ctx, subscriptions, storage, table,
          legacyFile, last, prev, vOrg, vRes, config, route, handlers, pluginCtx,
          removed, tasks>>

---------------------------------------------------------------------------
(* Bounds *)

MaxHooks == 3       \* hooks GitHub creates, the initial ones included
MaxRepoHooks == 2   \* the same, in the runs of the repository operations
MaxTyped == 3       \* characters of an identifier typed one by one

---------------------------------------------------------------------------
(* Strings.  TLC implements Len, SubSeq and \o on strings. *)

CharAt(s, i) == SubSeq(s, i, i)

EndsWith(s, suffix) ==
    /\ Len(s) >= Len(suffix)
    /\ SubSeq(s, Len(s) - Len(suffix) + 1, Len(s)) = suffix

Includes(s, sub) ==
    \E i \in 1..(Len(s) - Len(sub) + 1) : SubSeq(s, i, i + Len(sub) - 1) = sub

RECURSIVE Repeat(_, _)
Repeat(c, n) == IF n <= 0 THEN "" ELSE c \o Repeat(c, n - 1)

AlnumChars ==
    {"a","b","c","d","e","f","g","h","i","j","k","l","m","n","o","p","q","r",
     "s","t","u","v","w","x","y","z",
     "A","B","C","D","E","F","G","H","I","J","K","L","M","N","O","P","Q","R",
     "S","T","U","V","W","X","Y","Z",
     "0","1","2","3","4","5","6","7","8","9"}

SeparatorChars == {".", "_", "-"}

IdentChars == AlnumChars \cup SeparatorChars

---------------------------------------------------------------------------
(* Identifier validation *)

\* GITHUB_ORG_REGEX = /^[a-zA-Z0-9](?:[a-zA-Z0-9._-]{0,37}[a-zA-Z0-9])?$/
GITHUB_ORG_REGEX(s) ==
    LET n == Len(s) IN
    /\ n >= 1
    /\ CharAt(s, 1) \in AlnumChars
    /\ n > 1 =>
        /\ n - 2 <= 37
        /\ \A i \in 2..(n - 1) : CharAt(s, i) \in IdentChars
        /\ CharAt(s, n) \in AlnumChars

validateOrg(org) == GITHUB_ORG_REGEX(org)

\* /^[a-zA-Z0-9._-]+\/[a-zA-Z0-9._-]+$/
isValidRepo(repo) ==
    \E k \in 2..(Len(repo) - 1) :
        /\ CharAt(repo, k) = "/"
        /\ \A i \in (1..Len(repo)) \ {k} : CharAt(repo, i) \in IdentChars

---------------------------------------------------------------------------
(* Results and the call log *)

NoId == 0           \* null / undefined / NaN-free "no hook": falsy like id 0

Ok(url, id) == [success |-> TRUE, kind |-> "ok", webhookUrl |-> url, webhookId |-> id]

Fail(kind) == [success |-> FALSE, kind |-> kind, webhookUrl |-> "", webhookId |-> NoId]

\* What one run of an operation carries along: GitHub's state, the module's
\* state and the store's, the gh invocations (calls) and the storage and file
\* accesses (io) made so far.
RunNow ==
    [remote |-> remote, nextId |-> nextId, calls |-> <<>>,
     ctx |-> ctx, subs |-> subscriptions, storage |-> storage, table |-> table,
     file |-> legacyFile, io |-> <<>>, warned |-> <<>>,
     handlers |-> handlers, host |-> pluginCtx]

\* ctx.log.warn(message): the run keeps the message's fixed part
Warn(r, message) == [r EXCEPT !.warned = Append(@, message)]

Logged(r, kind, path, ok) ==
    [r EXCEPT !.calls = Append(@, [kind |-> kind, path |-> path, ok |-> ok])]

Done(r, res) == [run |-> r, res |-> res]

CallKinds(calls) == {calls[i].kind : i \in 1..Len(calls)}

AllCallsOk(calls) == \A i \in 1..Len(calls) : calls[i].ok

---------------------------------------------------------------------------
(* gh invocations.  `up` is the environment's verdict on this invocation;  *)
(* a call on a scope GitHub does not know fails whatever `up` says.        *)

\* execGh(["auth", "status"])
checkGhAuth(r, up) == [run |-> Logged(r, "auth", "auth status", up), success |-> up]

\* stdout of `gh api <scope>/hooks --jq ".[] | .id,.config.url"`, trimmed and
\* split on "\n": the id line and the url line of every hook, in order
ListLines(hooks) ==
    [i \in 1..(2 * Len(hooks)) |->
        IF i % 2 = 1 THEN hooks[(i + 1) \div 2].id ELSE hooks[i \div 2].url]

ghListHooks(r, scope, up) ==
    LET ok == up /\ scope \in DOMAIN r.remote IN
    [run     |-> Logged(r, "list", scope \o "/hooks", ok),
     success |-> ok,
     lines   |-> IF ok THEN ListLines(r.remote[scope]) ELSE <<>>]

SetUrl(hooks, id, url) ==
    [i \in 1..Len(hooks) |->
        IF hooks[i].id = id THEN [hooks[i] EXCEPT !.url = url] ELSE hooks[i]]

HasId(hooks, id) == \E i \in 1..Len(hooks) : hooks[i].id = id

\* gh api <scope>/hooks/<id> -X PATCH -f config[url]=<url> ... --jq .id
ghPatchHook(r, scope, id, url, up) ==
    LET ok == up /\ scope \in DOMAIN r.remote /\ HasId(r.remote[scope], id)
        r1 == Logged(r, "patch", scope \o "/hooks/" \o ToString(id), ok)
    IN [run     |-> IF ok THEN [r1 EXCEPT !.remote[scope] = SetUrl(@, id, url)]
                          ELSE r1,
        success |-> ok,
        id      |-> IF ok THEN id ELSE NoId]

\* gh api <scope>/hooks -X POST ... -f config[url]=<url> ... --jq .id
\* `parses` is whether stdout is a number parseInt can read
ghCreateHook(r, scope, url, up, parses) ==
    LET ok == up /\ scope \in DOMAIN r.remote
        r1 == Logged(r, "create", scope \o "/hooks", ok)
    IN [run     |-> IF ok
                    THEN [r1 EXCEPT !.remote[scope] =
                                        Append(@, [id |-> r.nextId, url |-> url]),
                                    !.nextId = @ + 1]
                    ELSE r1,
        success |-> ok,
        id      |-> IF ok /\ parses THEN r.nextId ELSE NoId]

---------------------------------------------------------------------------
(* The desired URL *)

\* getWebhookUrl(): "" stands for null.  env = [hostname, whConfig]; a missing
\* funnel extension and a missing hostname both leave hostname = "".
getWebhookUrl(env) ==
    IF ~env.whConfig.present THEN ""
    ELSE IF env.hostname = "" THEN ""
    ELSE "https://" \o env.hostname \o env.whConfig.basePath \o "/github"

\* `https://${hostname}${webhooksConfig.basePath}/github` of the update paths
HostUrl(host, cfg) == "https://" \o host \o cfg.basePath \o "/github"

---------------------------------------------------------------------------
(* Looking a hook up in a listing *)

\* for (i = 0; i < lines.length - 1; i += 2) if (lines[i + 1] === url) return id
FirstPairWithUrl(lines, url) ==
    LET hits == {k \in 1..(Len(lines) \div 2) : lines[2 * k] = url} IN
    IF hits = {} THEN NoId
    ELSE lines[2 * (CHOOSE k \in hits : \A j \in hits : k <= j) - 1]

\* ... if (hookUrl && hookUrl.endsWith(suffix)) return { id, url }
FirstPairWithSuffix(lines, suffix) ==
    LET hits == {k \in 1..(Len(lines) \div 2) :
                    lines[2 * k] # "" /\ EndsWith(lines[2 * k], suffix)}
        k0   == CHOOSE k \in hits : \A j \in hits : k <= j
    IN IF hits = {} THEN [found |-> FALSE, id |-> NoId, url |-> ""]
       ELSE [found |-> TRUE, id |-> lines[2 * k0 - 1], url |-> lines[2 * k0]]

findOrgWebhookByUrl(org, url, up, r) ==
    IF ~validateOrg(org) THEN [run |-> r, id |-> NoId]
    ELSE LET l == ghListHooks(r, "orgs/" \o org, up) IN
         [run |-> l.run,
          id  |-> IF l.success /\ l.lines # <<>>
                  THEN FirstPairWithUrl(l.lines, url) ELSE NoId]

findAnyOrgWebhook(org, basePath, up, r) ==
    IF ~validateOrg(org) THEN [run |-> r, hook |-> [found |-> FALSE, id |-> NoId, url |-> ""]]
    ELSE LET l == ghListHooks(r, "orgs/" \o org, up) IN
         [run  |-> l.run,
          hook |-> IF l.success /\ l.lines # <<>>
                   THEN FirstPairWithSuffix(l.lines, basePath \o "/github")
                   ELSE [found |-> FALSE, id |-> NoId, url |-> ""]]

---------------------------------------------------------------------------
(* setupOrgWebhook.  o = the environment's verdict on each gh invocation   *)
(* the run may make: [auth, list1, list2, patch, create, parse].           *)

\* lines 764-806: create the hook
createOrgWebhook(org, url, o, r) ==
    LET c == ghCreateHook(r, "orgs/" \o org, url, o.create, o.parse) IN
    IF ~c.success THEN Done(c.run, Fail("RemoteCallFailed"))
    ELSE IF c.id = NoId THEN Done(c.run, Fail("InvalidResponseFormat"))
    ELSE Done(c.run, Ok(url, c.id))

patchStaleOrgWebhook_Recreate(org, url, stale, o, r) ==
    createOrgWebhook(org, url, o, r)

patchStaleOrgWebhook_FailOutright(org, url, stale, o, r) ==
    LET p == ghPatchHook(r, "orgs/" \o org, stale.id, url, o.patch) IN
    IF p.success
    THEN Done(p.run, Ok(url, IF p.id = NoId THEN stale.id ELSE p.id))
    ELSE Done(p.run, Fail("RemoteCallFailed"))

\* lines 732-762: a stale hook is patched; a failed patch falls through
patchStaleOrgWebhook(org, url, stale, o, r) ==
    LET p == ghPatchHook(r, "orgs/" \o org, stale.id, url, o.patch) IN
    IF p.success
    THEN Done(p.run, Ok(url, IF p.id = NoId THEN stale.id ELSE p.id))
    ELSE createOrgWebhook(org, url, o, Warn(p.run, "Failed to update stale webhook"))

reconcileOrg_CreateFirst(org, url, cfg, o, r) ==
    LET exact == findOrgWebhookByUrl(org, url, o.list1, r) IN
    IF exact.id # NoId THEN Done(exact.run, Ok(url, exact.id))
    ELSE createOrgWebhook(org, url, o, exact.run)

reconcileOrg_StaleFirst(org, url, cfg, o, r) ==
    LET any == findAnyOrgWebhook(org, cfg.basePath, o.list2, r) IN
    IF any.hook.found
    THEN patchStaleOrgWebhook(org, url, any.hook, o, any.run)
    ELSE createOrgWebhook(org, url, o, any.run)

\* lines 725-807: exact match, else stale match, else create
reconcileOrg(org, url, cfg, o, r) ==
    LET exact == findOrgWebhookByUrl(org, url, o.list1, r) IN
    IF exact.id # NoId THEN Done(exact.run, Ok(url, exact.id))
    ELSE LET any == findAnyOrgWebhook(org, cfg.basePath, o.list2, exact.run) IN
         IF any.hook.found
         THEN patchStaleOrgWebhook(org, url, any.hook, o, any.run)
         ELSE createOrgWebhook(org, url, o, any.run)

\* lines 700-723 and on: auth, desired URL, token, then the reconciliation
setupOrgChecked(org, env, o, r) ==
    LET a   == checkGhAuth(r, o.auth)
        url == getWebhookUrl(env)
    IN IF ~a.success THEN Done(a.run, Fail("NotAuthenticated"))
       ELSE IF url = "" THEN Done(a.run, Fail("NoUrlAvailable"))
       ELSE IF env.whConfig.token = "" THEN Done(a.run, Fail("NoTokenConfigured"))
       ELSE reconcileOrg(org, url, env.whConfig, o, a.run)

setupOrgWebhook_Unvalidated(org, env, o, r) == setupOrgChecked(org, env, o, r)

setupOrgWebhook(org, env, o, r) ==
    IF ~validateOrg(org) THEN Done(r, Fail("InvalidIdentifier"))
    ELSE setupOrgChecked(org, env, o, r)

---------------------------------------------------------------------------
(* updateOrgWebhook *)

\* lines 876-931
updateOrgChecked_PatchAlways(org, oldHostname, newHostname, env, o, r) ==
    LET a == checkGhAuth(r, o.auth) IN
    IF ~a.success THEN Done(a.run, Fail("NotAuthenticated"))
    ELSE IF ~env.whConfig.present THEN Done(a.run, Fail("NotConfigured"))
    ELSE
      LET newUrl == HostUrl(newHostname, env.whConfig)
          hook   == findOrgWebhookByUrl(org, HostUrl(oldHostname, env.whConfig),
                                        o.list1, a.run)
      IN IF hook.id = NoId THEN Done(hook.run, Fail("NoExistingRegistration"))
         ELSE LET p == ghPatchHook(hook.run, "orgs/" \o org, hook.id, newUrl, o.patch)
              IN IF ~p.success THEN Done(p.run, Fail("UpdateFailed"))
                 ELSE Done(p.run, Ok(newUrl, hook.id))

updateOrgChecked_CreateWhenMissing(org, oldHostname, newHostname, env, o, r) ==
    LET a == checkGhAuth(r, o.auth) IN
    IF ~a.success THEN Done(a.run, Fail("NotAuthenticated"))
    ELSE IF ~env.whConfig.present THEN Done(a.run, Fail("NotConfigured"))
    ELSE
      LET newUrl  == HostUrl(newHostname, env.whConfig)
          already == findOrgWebhookByUrl(org, newUrl, o.list1, a.run)
          hook    == findOrgWebhookByUrl(org, HostUrl(oldHostname, env.whConfig),
                                         o.list2, already.run)
          p       == ghPatchHook(hook.run, "orgs/" \o org, hook.id, newUrl, o.patch)
      IN IF already.id # NoId THEN Done(already.run, Ok(newUrl, already.id))
         ELSE IF hook.id = NoId THEN createOrgWebhook(org, newUrl, o, hook.run)
         ELSE IF ~p.success THEN Done(p.run, Fail("UpdateFailed"))
         ELSE Done(p.run, Ok(newUrl, hook.id))

updateOrgChecked(org, oldHostname, newHostname, env, o, r) ==
    LET a == checkGhAuth(r, o.auth) IN
    IF ~a.success THEN Done(a.run, Fail("NotAuthenticated"))
    ELSE IF ~env.whConfig.present THEN Done(a.run, Fail("NotConfigured"))
    ELSE
      LET oldUrl  == HostUrl(oldHostname, env.whConfig)
          newUrl  == HostUrl(newHostname, env.whConfig)
          already == findOrgWebhookByUrl(org, newUrl, o.list1, a.run)
      IN IF already.id # NoId THEN Done(already.run, Ok(newUrl, already.id))
         ELSE
           LET hook == findOrgWebhookByUrl(org, oldUrl, o.list2, already.run) IN
           IF hook.id = NoId THEN Done(hook.run, Fail("NoExistingRegistration"))
           ELSE
             LET p == ghPatchHook(hook.run, "orgs/" \o org, hook.id, newUrl, o.patch) IN
             IF ~p.success THEN Done(p.run, Fail("UpdateFailed"))
             ELSE Done(p.run, Ok(newUrl, hook.id))

updateOrgWebhook(org, oldHostname, newHostname, env, o, r) ==
    IF ~validateOrg(org) THEN Done(r, Fail("InvalidIdentifier"))
    ELSE updateOrgChecked(org, oldHostname, newHostname, env, o, r)

---------------------------------------------------------------------------
(* The subscription store *)

\* Map<string, RepoSubscription> and the storage table: functions on their keys
Put(m, k, v) == [x \in (DOMAIN m) \cup {k} |-> IF x = k THEN v ELSE m[x]]

Remove(m, k) == [x \in (DOMAIN m) \ {k} |-> m[x]]

Io(r, kind, key, ok) == [r EXCEPT !.io = Append(@, [kind |-> kind, key |-> key, ok |-> ok])]

persistSubscription_WarnWithoutStorage(sub, putOk, r) ==
    IF ~r.storage THEN Warn(r, "Storage API not available")
    ELSE LET r1 == Io(r, "put", sub.repo, putOk) IN
         IF putOk THEN [r1 EXCEPT !.table = Put(@, sub.repo, sub)]
         ELSE Warn(r1, "Failed to persist subscription")

\* storage.put(SUBSCRIPTIONS_TABLE, sub.repo, sub); a throw is logged and dropped
persistSubscription(sub, putOk, r) ==
    IF ~r.storage THEN r
    ELSE LET r1 == Io(r, "put", sub.repo, putOk) IN
         IF putOk THEN [r1 EXCEPT !.table = Put(@, sub.repo, sub)]
         ELSE Warn(r1, "Failed to persist subscription")

\* storage.delete(SUBSCRIPTIONS_TABLE, repo); a throw is logged and dropped
removeSubscription(repo, delOk, r) ==
    IF ~r.storage THEN r
    ELSE LET r1 == Io(r, "delete", repo, delOk) IN
         IF delOk THEN [r1 EXCEPT !.table = Remove(@, repo)]
         ELSE Warn(r1, "Failed to remove subscription")

persistAll_FirstOnly(subs, order, putFail, r) ==
    IF order = <<>> THEN r
    ELSE persistSubscription(subs[Head(order)],
                             subs[Head(order)].repo \notin putFail, r)

\* for (const sub of subscriptions.values()) await persistSubscription(sub):
\* the keys are put in the Map's order; putFail are the keys whose put throws
RECURSIVE persistAll(_, _, _, _)
persistAll(subs, order, putFail, r) ==
    IF order = <<>> THEN r
    ELSE persistAll(subs, Tail(order), putFail,
                    persistSubscription(subs[Head(order)],
                                        subs[Head(order)].repo \notin putFail, r))

\* The order in which a Map built from an object's entries is walked
RECURSIVE KeyOrder(_)
KeyOrder(keys) ==
    IF keys = {} THEN <<>>
    ELSE LET k == CHOOSE k \in keys : TRUE IN <<k>> \o KeyOrder(keys \ {k})

loadFromConfig_MemoryOnly(cfgSubs, v, r) ==
    [r EXCEPT !.subs = [k \in (DOMAIN r.subs) \cup (DOMAIN cfgSubs) |->
                           IF k \in DOMAIN cfgSubs THEN cfgSubs[k] ELSE r.subs[k]]]

\* lines 1131-1143: the subscriptions of the plugin configuration
loadFromConfig(cfgSubs, v, r) ==
    LET subs == [k \in (DOMAIN r.subs) \cup (DOMAIN cfgSubs) |->
                    IF k \in DOMAIN cfgSubs THEN cfgSubs[k] ELSE r.subs[k]]
        r1   == [r EXCEPT !.subs = subs]
    IN persistAll(subs, KeyOrder(DOMAIN subs), v.putFail, r1)

loadFromStorage_ThenConfig(cfgSubs, v, r) ==
    IF ~r.storage THEN loadFromConfig(cfgSubs, v, r)
    ELSE LET r1   == Io(r, "list", "", v.list)
             rows == {r.table[k] : k \in DOMAIN r.table}
             kept == {row \in rows : row.repo # ""}
             subs == [k \in {row.repo : row \in kept} |->
                         CHOOSE row \in kept : row.repo = k]
         IN IF ~v.list
            THEN loadFromConfig(cfgSubs, v,
                     Warn(r1, "Failed to load subscriptions from storage"))
            ELSE loadFromConfig(cfgSubs, v, [r1 EXCEPT !.subs = subs])

\* lines 1111-1129: the rows of the storage table, then the configuration
loadFromStorage(cfgSubs, v, r) ==
    IF ~r.storage THEN loadFromConfig(cfgSubs, v, r)
    ELSE LET r1   == Io(r, "list", "", v.list)
             rows == {r.table[k] : k \in DOMAIN r.table}
             kept == {row \in rows : row.repo # ""}
             subs == [k \in {row.repo : row \in kept} |->
                         CHOOSE row \in kept : row.repo = k]
         IN IF ~v.list
            THEN loadFromConfig(cfgSubs, v,
                     Warn(r1, "Failed to load subscriptions from storage"))
            ELSE IF DOMAIN subs # {} THEN [r1 EXCEPT !.subs = subs]
            ELSE loadFromConfig(cfgSubs, v, r1)

migrateLegacyFile_KeepMemoryOnly(v, r) ==
    LET r2 == Io([r EXCEPT !.subs = r.file.content], "unlink",
                 "subscriptions.json", v.unlink)
    IN IF v.unlink THEN [r2 EXCEPT !.file = [state |-> "absent", content |-> <<>>]]
       ELSE Warn(r2, "Failed to delete legacy subscriptions.json")

\* lines 1082-1105: a readable legacy file is loaded, persisted and deleted
migrateLegacyFile(v, r) ==
    LET subs == r.file.content
        r1   == persistAll(subs, KeyOrder(DOMAIN subs), v.putFail,
                           [r EXCEPT !.subs = subs])
        r2   == Io(r1, "unlink", "subscriptions.json", v.unlink)
    IN IF v.unlink THEN [r2 EXCEPT !.file = [state |-> "absent", content |-> <<>>]]
       ELSE Warn(r2, "Failed to delete legacy subscriptions.json")

loadSubscriptions_UnlinkCorrupt(cfgSubs, v, r) ==
    LET r0 == [r EXCEPT !.subs = <<>>] IN
    IF r0.file.state = "readable" THEN migrateLegacyFile(v, r0)
    ELSE IF r0.file.state = "corrupt"
    THEN loadFromStorage(cfgSubs, v,
             [r0 EXCEPT !.file = [state |-> "absent", content |-> <<>>]])
    ELSE loadFromStorage(cfgSubs, v, r0)

\* v = [putFail, list, unlink]: the puts that throw, whether storage.list and
\* unlinkSync come back
loadSubscriptions(cfgSubs, v, r) ==
    LET r0 == [r EXCEPT !.subs = <<>>] IN
    IF r0.file.state = "readable" THEN migrateLegacyFile(v, r0)
    ELSE loadFromStorage(cfgSubs, v, r0)

---------------------------------------------------------------------------
(* Repository scope *)

DEFAULT_REPO_EVENTS ==
    <<"push", "pull_request", "pull_request_review", "issues", "issue_comment">>

Undefined == "<undefined>"

findRepoWebhookByUrl(repo, url, up, r) ==
    LET l == ghListHooks(r, "repos/" \o repo, up) IN
    [run |-> l.run,
     id  |-> IF l.success /\ l.lines # <<>>
             THEN FirstPairWithUrl(l.lines, url) ELSE NoId]

recordSubscription_DefaultEvents(repo, id, opt, now, url, o, r) ==
    LET sub == [repo |-> repo, webhookId |-> id, events |-> DEFAULT_REPO_EVENTS,
                session |-> opt.session, createdAt |-> now]
    IN Done(persistSubscription(sub, o.put, [r EXCEPT !.subs = Put(@, repo, sub)]),
            Ok(url, id))

\* lines 1212-1222 and 1263-1273: record the subscription
recordSubscription(repo, id, opt, now, url, o, r) ==
    LET sub == [repo |-> repo, webhookId |-> id,
                events |-> IF opt.events = Undefined
                           THEN DEFAULT_REPO_EVENTS ELSE opt.events,
                session |-> opt.session, createdAt |-> now]
    IN Done(persistSubscription(sub, o.put, [r EXCEPT !.subs = Put(@, repo, sub)]),
            Ok(url, id))

subscribeReconcile_NoAdopt(repo, opt, now, url, o, r) ==
    LET existing == findRepoWebhookByUrl(repo, url, o.list1, r)
        c == ghCreateHook(existing.run, "repos/" \o repo, url, o.create, o.parse) IN
    IF ~c.success THEN Done(c.run, Fail("RemoteCallFailed"))
    ELSE IF c.id = NoId THEN Done(c.run, Fail("InvalidResponseFormat"))
    ELSE recordSubscription(repo, c.id, opt, now, url, o, c.run)

subscribeReconcile_RecordUnparsed(repo, opt, now, url, o, r) ==
    LET existing == findRepoWebhookByUrl(repo, url, o.list1, r) IN
    IF existing.id # NoId
    THEN recordSubscription(repo, existing.id, opt, now, url, o, existing.run)
    ELSE LET c == ghCreateHook(existing.run, "repos/" \o repo, url, o.create, o.parse) IN
         IF ~c.success THEN Done(c.run, Fail("RemoteCallFailed"))
         ELSE IF c.id = NoId
         THEN Done(recordSubscription(repo, c.id, opt, now, url, o, c.run).run,
                   Fail("InvalidResponseFormat"))
         ELSE recordSubscription(repo, c.id, opt, now, url, o, c.run)

\* lines 1206-1274: adopt the hook that carries the URL, or create one
subscribeReconcile(repo, opt, now, url, o, r) ==
    LET existing == findRepoWebhookByUrl(repo, url, o.list1, r) IN
    IF existing.id # NoId
    THEN recordSubscription(repo, existing.id, opt, now, url, o, existing.run)
    ELSE LET c == ghCreateHook(existing.run, "repos/" \o repo, url, o.create, o.parse) IN
         IF ~c.success THEN Done(c.run, Fail("RemoteCallFailed"))
         ELSE IF c.id = NoId THEN Done(c.run, Fail("InvalidResponseFormat"))
         ELSE recordSubscription(repo, c.id, opt, now, url, o, c.run)

subscribeTracked_Overwrite(repo, opt, now, env, o, r) ==
    LET url == getWebhookUrl(env) IN
    IF url = "" THEN Done(r, Fail("NoUrlAvailable"))
    ELSE IF env.whConfig.token = "" THEN Done(r, Fail("NoTokenConfigured"))
    ELSE subscribeReconcile(repo, opt, now, url, o, r)

\* lines 1182-1204: already subscribed, desired URL, token
subscribeTracked(repo, opt, now, env, o, r) ==
    LET url == getWebhookUrl(env) IN
    IF repo \in DOMAIN r.subs THEN Done(r, Fail("AlreadySubscribed"))
    ELSE IF url = "" THEN Done(r, Fail("NoUrlAvailable"))
    ELSE IF env.whConfig.token = "" THEN Done(r, Fail("NoTokenConfigured"))
    ELSE subscribeReconcile(repo, opt, now, url, o, r)

subscribeRepo(repo, opt, now, env, o, r) ==
    IF ~isValidRepo(repo) THEN Done(r, Fail("InvalidIdentifier"))
    ELSE LET a == checkGhAuth(r, o.auth) IN
         IF ~a.success THEN Done(a.run, Fail("NotAuthenticated"))
         ELSE subscribeTracked(repo, opt, now, env, o, a.run)

\* What GitHub prints when the hook is not there
NotFoundText == "gh: Not Found (HTTP 404)"

RemoveId(hooks, id) == SelectSeq(hooks, LAMBDA h : h.id # id)

\* gh api <scope>/hooks/<id> -X DELETE.  verdict is "ok" or the text of the
\* failure; deleting a hook that is not there is GitHub's 404.
ghDeleteHook(r, scope, id, verdict) ==
    LET there == scope \in DOMAIN r.remote /\ HasId(r.remote[scope], id)
        ok    == verdict = "ok" /\ there
        text  == IF ok THEN "" ELSE IF verdict = "ok" THEN NotFoundText ELSE verdict
        r1    == [r EXCEPT !.calls = Append(@,
                     [kind |-> "delete",
                      path |-> scope \o "/hooks/" \o ToString(id),
                      ok |-> ok, stdout |-> text])]
    IN [run     |-> IF ok THEN [r1 EXCEPT !.remote[scope] = RemoveId(@, id)] ELSE r1,
        success |-> ok,
        stdout  |-> text]

forgetSubscription_Strict(repo, o, r) ==
    IF r.storage /\ ~o.del
    THEN Done(removeSubscription(repo, o.del, r), Fail("RemoteCallFailed"))
    ELSE Done(removeSubscription(repo, o.del, [r EXCEPT !.subs = Remove(@, repo)]),
              [success |-> TRUE, kind |-> "ok", webhookUrl |-> "", webhookId |-> NoId])

\* lines 1312-1315: drop the record
forgetSubscription(repo, o, r) ==
    Done(removeSubscription(repo, o.del, [r EXCEPT !.subs = Remove(@, repo)]),
         [success |-> TRUE, kind |-> "ok", webhookUrl |-> "", webhookId |-> NoId])

unsubscribeDelete_FailOnNotFound(repo, o, r) ==
    LET d == ghDeleteHook(r, "repos/" \o repo, r.subs[repo].webhookId, o.delete) IN
    IF ~d.success THEN Done(d.run, Fail("RemoteCallFailed"))
    ELSE forgetSubscription(repo, o, d.run)

unsubscribeDelete_ForgetFirst(repo, o, r) ==
    LET f == forgetSubscription(repo, o, r)
        d == ghDeleteHook(f.run, "repos/" \o repo, r.subs[repo].webhookId, o.delete) IN
    IF ~d.success /\ ~Includes(d.stdout, "Not Found") /\ ~Includes(d.stdout, "404")
    THEN Done(d.run, Fail("RemoteCallFailed"))
    ELSE Done(d.run, f.res)

\* lines 1291-1316: delete the hook, a 404 counting as done
unsubscribeDelete(repo, o, r) ==
    LET d == ghDeleteHook(r, "repos/" \o repo, r.subs[repo].webhookId, o.delete) IN
    IF ~d.success /\ ~Includes(d.stdout, "Not Found") /\ ~Includes(d.stdout, "404")
    THEN Done(d.run, Fail("RemoteCallFailed"))
    ELSE forgetSubscription(repo, o, d.run)

unsubscribeRepo_AuthFirst(repo, o, r) ==
    LET a == checkGhAuth(r, o.auth) IN
    IF ~a.success THEN Done(a.run, Fail("NotAuthenticated"))
    ELSE IF repo \notin DOMAIN r.subs THEN Done(a.run, Fail("NotSubscribed"))
    ELSE unsubscribeDelete(repo, o, a.run)

\* lines 1276-1316
unsubscribeRepo(repo, o, r) ==
    IF repo \notin DOMAIN r.subs THEN Done(r, Fail("NotSubscribed"))
    ELSE LET a == checkGhAuth(r, o.auth) IN
         IF ~a.success THEN Done(a.run, Fail("NotAuthenticated"))
         ELSE unsubscribeDelete(repo, o, a.run)

updateRepoWebhook_FreshRecord(repo, oldHostname, newHostname, env, o, r) ==
    IF ~env.whConfig.present THEN Done(r, Fail("NotConfigured"))
    ELSE
      LET oldUrl  == HostUrl(oldHostname, env.whConfig)
          newUrl  == HostUrl(newHostname, env.whConfig)
          already == findRepoWebhookByUrl(repo, newUrl, o.list1, r)
      IN IF already.id # NoId THEN Done(already.run, Ok(newUrl, already.id))
         ELSE
           LET hook == findRepoWebhookByUrl(repo, oldUrl, o.list2, already.run) IN
           IF hook.id = NoId THEN Done(hook.run, Fail("NoExistingRegistration"))
           ELSE
             LET p == ghPatchHook(hook.run, "repos/" \o repo, hook.id, newUrl, o.patch) IN
             IF ~p.success THEN Done(p.run, Fail("UpdateFailed"))
             ELSE LET sub == [repo |-> repo, webhookId |-> hook.id,
                              events |-> DEFAULT_REPO_EVENTS,
                              session |-> Undefined, createdAt |-> "t1"] IN
                  Done(persistSubscription(sub, o.put,
                                           [p.run EXCEPT !.subs = Put(@, repo, sub)]),
                       Ok(newUrl, hook.id))

\* lines 957-1019
updateRepoWebhook(repo, oldHostname, newHostname, env, o, r) ==
    IF ~env.whConfig.present THEN Done(r, Fail("NotConfigured"))
    ELSE
      LET oldUrl  == HostUrl(oldHostname, env.whConfig)
          newUrl  == HostUrl(newHostname, env.whConfig)
          already == findRepoWebhookByUrl(repo, newUrl, o.list1, r)
      IN IF already.id # NoId THEN Done(already.run, Ok(newUrl, already.id))
         ELSE
           LET hook == findRepoWebhookByUrl(repo, oldUrl, o.list2, already.run) IN
           IF hook.id = NoId THEN Done(hook.run, Fail("NoExistingRegistration"))
           ELSE
             LET p == ghPatchHook(hook.run, "repos/" \o repo, hook.id, newUrl, o.patch) IN
             IF ~p.success THEN Done(p.run, Fail("UpdateFailed"))
             ELSE IF repo \in DOMAIN p.run.subs
             THEN LET sub == [p.run.subs[repo] EXCEPT !.webhookId = hook.id] IN
                  Done(persistSubscription(sub, o.put,
                                           [p.run EXCEPT !.subs = Put(@, repo, sub)]),
                       Ok(newUrl, hook.id))
             ELSE Done(p.run, Ok(newUrl, hook.id))

\* githubExtension.listSubscriptions(): Array.from(subscriptions.values())
listSubscriptions(subs) == {subs[k] : k \in DOMAIN subs}

---------------------------------------------------------------------------
(* Plugin lifecycle *)

\* let webhooksReadyHandler = null; let hostnameChangedHandler = null
\* orgs: config.orgs as the closures init made last hold it
NoHandlers ==
    [webhooksReadyHandler |-> FALSE, hostnameChangedHandler |-> FALSE, orgs |-> <<>>]

\* A context without an event emitter, before the plugin registered anything
NoEmitter == [events |-> FALSE, ready |-> 0, changed |-> 0, extension |-> FALSE]

\* events.off(name, handler): the listener goes when it is on the emitter
Off(n) == IF n > 0 THEN n - 1 ELSE 0

subscribeToEvents_NoOff(orgs, r) ==
    IF ~r.host.events THEN r
    ELSE [r EXCEPT
            !.host.ready = @ + 1,
            !.host.changed = @ + 1,
            !.handlers = [webhooksReadyHandler |-> TRUE,
                          hostnameChangedHandler |-> TRUE, orgs |-> orgs]]

\* lines 2094-2179: the listeners.  A handler init set before is taken off the
\* emitter before the new one goes on
subscribeToEvents(orgs, r) ==
    IF ~r.host.events THEN r
    ELSE [r EXCEPT
            !.host.ready = (IF r.handlers.webhooksReadyHandler THEN Off(@) ELSE @) + 1,
            !.host.changed = (IF r.handlers.hostnameChangedHandler THEN Off(@) ELSE @) + 1,
            !.handlers = [webhooksReadyHandler |-> TRUE,
                          hostnameChangedHandler |-> TRUE, orgs |-> orgs]]

Completed == [success |-> TRUE, kind |-> "ok", webhookUrl |-> "", webhookId |-> NoId]

\* lines 2055-2196: init.  hasStorage is ctx.storage, cfg what ctx.getConfig()
\* returns ([subscriptions, orgs]), v.gh whether gh is installed
pluginInit(hasStorage, cfg, v, r) ==
    LET r0 == [r EXCEPT !.ctx = TRUE, !.storage = hasStorage,
                        !.host.extension = TRUE]
        r1 == loadSubscriptions(cfg.subscriptions, v,
                  IF hasStorage THEN r0 ELSE Warn(r0, "Storage API not available"))
        a  == IF ~v.gh THEN Warn(r1, "GitHub CLI (gh) not found")
              ELSE LET c == checkGhAuth(r1, v.auth) IN
                   IF c.success THEN c.run
                   ELSE Warn(c.run, "GitHub CLI not authenticated")
    IN Done(subscribeToEvents(cfg.orgs, a), Completed)

\* lines 2199-2210: the listeners are taken off the context's emitter
unsubscribeFromEvents(r) ==
    IF ~(r.ctx /\ r.host.events) THEN r
    ELSE [r EXCEPT
            !.host.ready = IF r.handlers.webhooksReadyHandler THEN Off(@) ELSE @,
            !.host.changed = IF r.handlers.hostnameChangedHandler THEN Off(@) ELSE @,
            !.handlers = NoHandlers]

\* lines 2198-2216
pluginShutdown(r) ==
    LET r1 == unsubscribeFromEvents(r) IN
    Done([r1 EXCEPT !.subs = <<>>, !.storage = FALSE, !.ctx = FALSE,
                    !.host.extension = IF r.ctx THEN FALSE ELSE @],
         Completed)

---------------------------------------------------------------------------
(* Invocations in steps.  An async function runs from its call, or from the *)
(* await it is suspended at, to its next await or its return; execGh is     *)
(* spawnSync and suspends nothing.  A task is one invocation: its arguments,*)
(* the await it is at (pc), what it holds in its locals, and its result.    *)

Pending == Fail("pending")

NoConfig == [subscriptions |-> <<>>, orgs |-> <<>>]

Task(op, arg, opt, cfg) ==
    [op |-> op, arg |-> arg, opt |-> opt, cfg |-> cfg, pc |-> "start",
     authed |-> FALSE, visited |-> {}, res |-> Pending, calls |-> <<>>,
     overlap |-> FALSE, rank |-> 0]

Suspend(t, pc, r) == [run |-> r, task |-> [t EXCEPT !.pc = pc]]

Return(t, d) == [run |-> d.run, task |-> [t EXCEPT !.pc = "returned", !.res = d.res]]

\* lines 1190-1274: subscribeRepo from the desired URL on
subscribeWithUrl(repo, opt, now, env, o, r) ==
    LET url == getWebhookUrl(env) IN
    IF url = "" THEN Done(r, Fail("NoUrlAvailable"))
    ELSE IF env.whConfig.token = "" THEN Done(r, Fail("NoTokenConfigured"))
    ELSE subscribeReconcile(repo, opt, now, url, o, r)

\* subscribeRepo, lines 1164-1274, between its awaits: checkGhAuth (1175),
\* getWebhookUrl (1190), persistSubscription (1220, 1271)
subscribeResume(t, now, env, o, r) ==
    CASE t.pc = "start" ->
            IF ~isValidRepo(t.arg) THEN Return(t, Done(r, Fail("InvalidIdentifier")))
            ELSE LET a == checkGhAuth(r, o.auth) IN
                 Suspend([t EXCEPT !.authed = a.success], "auth", a.run)
      [] t.pc = "auth" ->
            IF ~t.authed THEN Return(t, Done(r, Fail("NotAuthenticated")))
            ELSE IF t.arg \in DOMAIN r.subs
            THEN Return(t, Done(r, Fail("AlreadySubscribed")))
            ELSE Suspend(t, "url", r)
      [] t.pc = "url" ->
            LET d == subscribeWithUrl(t.arg, t.opt, now, env, o, r) IN
            IF d.res.success THEN Suspend([t EXCEPT !.res = d.res], "persist", d.run)
            ELSE Return(t, d)
      [] OTHER -> Return(t, Done(r, t.res))

setupAfterUrl_CreateUnseen(org, env, o, r) ==
    LET url == getWebhookUrl(env) IN
    IF url = "" THEN Done(r, Fail("NoUrlAvailable"))
    ELSE IF env.whConfig.token = "" THEN Done(r, Fail("NoTokenConfigured"))
    ELSE createOrgWebhook(org, url, o, r)

\* lines 709-807: setupOrgWebhook from the desired URL on; no await is left
setupAfterUrl(org, env, o, r) ==
    LET url == getWebhookUrl(env) IN
    IF url = "" THEN Done(r, Fail("NoUrlAvailable"))
    ELSE IF env.whConfig.token = "" THEN Done(r, Fail("NoTokenConfigured"))
    ELSE reconcileOrg(org, url, env.whConfig, o, r)

\* setupOrgWebhook, lines 692-807, between its awaits: checkGhAuth (701) and
\* getWebhookUrl (709)
setupResume(t, env, o, r) ==
    CASE t.pc = "start" ->
            IF ~validateOrg(t.arg) THEN Return(t, Done(r, Fail("InvalidIdentifier")))
            ELSE LET a == checkGhAuth(r, o.auth) IN
                 Suspend([t EXCEPT !.authed = a.success], "auth", a.run)
      [] t.pc = "auth" ->
            IF ~t.authed THEN Return(t, Done(r, Fail("NotAuthenticated")))
            ELSE Suspend(t, "url", r)
      [] OTHER -> Return(t, setupAfterUrl(t.arg, env, o, r))

\* for (const sub of subscriptions.values()) await persistSubscription(sub):
\* the Map is walked live, one entry between two awaits; `end` is where the
\* code goes when the walk is over
persistNext(t, pc, v, r, end) ==
    LET left == KeyOrder((DOMAIN r.subs) \ t.visited) IN
    IF left = <<>> THEN end
    ELSE Suspend([t EXCEPT !.visited = @ \cup {Head(left)}], pc,
                 persistSubscription(r.subs[Head(left)], Head(left) \notin v.putFail, r))

\* lines 1096-1105: the legacy file is unlinked and loadSubscriptions returns
unlinkLegacy(t, v, r) ==
    LET r2 == Io(r, "unlink", "subscriptions.json", v.unlink) IN
    Suspend(t, "loaded",
            IF v.unlink THEN [r2 EXCEPT !.file = [state |-> "absent", content |-> <<>>]]
            ELSE Warn(r2, "Failed to delete legacy subscriptions.json"))

\* lines 1131-1143: the configuration's subscriptions are set, and the walk
\* that persists them starts
configTier(t, v, r) ==
    LET cfgSubs == t.cfg.subscriptions
        subs == [k \in (DOMAIN r.subs) \cup (DOMAIN cfgSubs) |->
                    IF k \in DOMAIN cfgSubs THEN cfgSubs[k] ELSE r.subs[k]]
        r1   == [r EXCEPT !.subs = subs]
    IN persistNext([t EXCEPT !.visited = {}], "persistConfig", v, r1,
                   Suspend(t, "loaded", r1))

\* lines 1078-1112: loadSubscriptions from its call to its first await
loadBegin(t, v, r) ==
    LET r0 == [r EXCEPT !.subs = <<>>] IN
    IF r0.file.state = "readable"
    THEN LET r1 == [r0 EXCEPT !.subs = r0.file.content] IN
         persistNext(t, "persistFile", v, r1, unlinkLegacy(t, v, r1))
    ELSE IF r0.storage THEN Suspend(t, "list", r0)
    ELSE configTier(t, v, r0)

\* lines 1113-1129: storage.list has come back
loadListed(t, v, r) ==
    LET r1   == Io(r, "list", "", v.list)
        rows == {r.table[k] : k \in DOMAIN r.table}
        kept == {row \in rows : row.repo # ""}
        subs == [k \in (DOMAIN r.subs) \cup {row.repo : row \in kept} |->
                    IF \E row \in kept : row.repo = k
                    THEN CHOOSE row \in kept : row.repo = k ELSE r.subs[k]]
    IN IF ~v.list
       THEN configTier(t, v, Warn(r1, "Failed to load subscriptions from storage"))
       ELSE IF DOMAIN subs # {} THEN Suspend(t, "loaded", [r1 EXCEPT !.subs = subs])
       ELSE configTier(t, v, r1)

\* lines 2076-2196: init after `await loadSubscriptions()`
initAfterLoad(t, v, r) ==
    LET a == IF ~v.gh THEN Warn(r, "GitHub CLI (gh) not found")
             ELSE LET c == checkGhAuth(r, v.auth) IN
                  IF c.success THEN c.run
                  ELSE Warn(c.run, "GitHub CLI not authenticated")
    IN Return(t, Done(subscribeToEvents(t.cfg.orgs, a), Completed))

\* init, lines 2055-2196, between the awaits of loadSubscriptions.  The
\* "github" extension is registered at line 2072, before the load is called
initResume(t, hasStorage, v, r) ==
    CASE t.pc = "start" ->
            LET r0 == [r EXCEPT !.ctx = TRUE, !.storage = hasStorage,
                                !.host.extension = TRUE]
            IN loadBegin(t, v, IF hasStorage THEN r0
                               ELSE Warn(r0, "Storage API not available"))
      [] t.pc = "persistFile" ->
            persistNext(t, "persistFile", v, r, unlinkLegacy(t, v, r))
      [] t.pc = "list" -> loadListed(t, v, r)
      [] t.pc = "persistConfig" ->
            persistNext(t, "persistConfig", v, r, Suspend(t, "loaded", r))
      [] OTHER -> initAfterLoad(t, v, r)

\* githubExtension.listSubscriptions(), as a list of what it returns
listedSubscriptions(r) ==
    LET order == KeyOrder(DOMAIN r.subs) IN
    [i \in 1..Len(order) |->
        [scope |-> order[i], res |-> Ok("", r.subs[order[i]].webhookId)]]

---------------------------------------------------------------------------
(* The handlers init registers.  os and rs are the environment's verdicts,  *)
(* one record for each organization and each repository in turn; a handler  *)
(* returns the run and the result of every operation it ran, in order.      *)

Attempt(scope, res) == [scope |-> scope, res |-> res]

\* The element of a one-element set: { f(d) : d \in {e} } computes e once
Only(S) == CHOOSE x \in S : TRUE

\* What a loop goes on with after one operation: a failure is logged
Logging(d, message) == IF d.res.success THEN d.run ELSE Warn(d.run, message)

RECURSIVE setupEach_StopAtFailure(_, _, _, _, _)
setupEach_StopAtFailure(orgs, env, os, r, results) ==
    IF orgs = <<>> THEN [run |-> r, results |-> results]
    ELSE Only({IF d.res.success
               THEN setupEach_StopAtFailure(Tail(orgs), env, Tail(os), d.run,
                        Append(results, Attempt(Head(orgs), d.res)))
               ELSE [run |-> Warn(d.run, "Auto-setup webhook failed"),
                     results |-> Append(results, Attempt(Head(orgs), d.res))] :
               d \in {setupOrgWebhook(Head(orgs), env, Head(os), r)}})

\* lines 2116-2127: for (const org of config.orgs) await setupOrgWebhook(org)
RECURSIVE setupEach(_, _, _, _, _)
setupEach(orgs, env, os, r, results) ==
    IF orgs = <<>> THEN [run |-> r, results |-> results]
    ELSE Only({setupEach(Tail(orgs), env, Tail(os),
                         Logging(d, "Auto-setup webhook failed"),
                         Append(results, Attempt(Head(orgs), d.res))) :
               d \in {setupOrgWebhook(Head(orgs), env, Head(os), r)}})

\* lines 2110-2129
webhooksReadyHandler(env, os, r) ==
    IF getWebhookUrl(env) # "" /\ r.handlers.orgs # <<>>
    THEN setupEach(r.handlers.orgs, env, os, r, <<>>)
    ELSE [run |-> r, results |-> <<>>]

\* lines 2144-2161: for (const org of config.orgs) await updateOrgWebhook(...)
RECURSIVE updateEachOrg(_, _, _, _, _, _, _)
updateEachOrg(orgs, oldHostname, newHostname, env, os, r, results) ==
    IF orgs = <<>> THEN [run |-> r, results |-> results]
    ELSE Only({updateEachOrg(Tail(orgs), oldHostname, newHostname, env, Tail(os),
                             Logging(d, "Failed to update org webhook"),
                             Append(results, Attempt(Head(orgs), d.res))) :
               d \in {updateOrgWebhook(Head(orgs), oldHostname, newHostname, env,
                                       Head(os), r)}})

RECURSIVE updateEachRepo_StopAtFailure(_, _, _, _, _, _, _)
updateEachRepo_StopAtFailure(repos, oldHostname, newHostname, env, rs, r, results) ==
    IF repos = <<>> THEN [run |-> r, results |-> results]
    ELSE Only({IF d.res.success
               THEN updateEachRepo_StopAtFailure(Tail(repos), oldHostname,
                        newHostname, env, Tail(rs), d.run,
                        Append(results, Attempt(Head(repos), d.res)))
               ELSE [run |-> Warn(d.run, "Failed to update repo webhook"),
                     results |-> Append(results, Attempt(Head(repos), d.res))] :
               d \in {updateRepoWebhook(Head(repos), oldHostname, newHostname, env,
                                        Head(rs), r)}})

\* lines 2164-2178: for (const [repo] of subscriptions) await updateRepoWebhook(...)
RECURSIVE updateEachRepo(_, _, _, _, _, _, _)
updateEachRepo(repos, oldHostname, newHostname, env, rs, r, results) ==
    IF repos = <<>> THEN [run |-> r, results |-> results]
    ELSE Only({updateEachRepo(Tail(repos), oldHostname, newHostname, env, Tail(rs),
                              Logging(d, "Failed to update repo webhook"),
                              Append(results, Attempt(Head(repos), d.res))) :
               d \in {updateRepoWebhook(Head(repos), oldHostname, newHostname, env,
                                        Head(rs), r)}})

\* lines 2133-2179
hostnameChangedHandler(oldHostname, newHostname, env, os, rs, r) ==
    Only({updateEachRepo(KeyOrder(DOMAIN a.run.subs), oldHostname, newHostname,
                         env, rs, a.run, a.results) :
          a \in {updateEachOrg(r.handlers.orgs, oldHostname, newHostname, env, os,
                               r, <<>>)}})

---------------------------------------------------------------------------
(* Event routing *)

\* What a JavaScript condition takes as true of an optional string
Truthy(x) == x # Undefined /\ x # ""

\* String.prototype.trim() on the values the configurations hold
RECURSIVE trim(_)
trim(x) ==
    IF x = "" THEN ""
    ELSE IF CharAt(x, 1) = " " THEN trim(Tail(x))
    ELSE IF CharAt(x, Len(x)) = " " THEN trim(SubSeq(x, 1, Len(x) - 1))
    ELSE x

\* config.routing?.[key]: Undefined when the table or the key is absent
RoutingEntry(cfg, key) ==
    IF cfg.hasRouting /\ key \in DOMAIN cfg.routing
    THEN cfg.routing[key] ELSE Undefined

resolveSessionFromConfig_BlankExact(eventType, repo, subs, hasCtx, cfg) ==
    IF /\ Truthy(repo) /\ repo \in DOMAIN subs /\ Truthy(subs[repo].session)
    THEN subs[repo].session
    ELSE IF ~hasCtx \/ ~cfg.present THEN ""
    ELSE IF Truthy(RoutingEntry(cfg, eventType)) THEN RoutingEntry(cfg, eventType)
    ELSE IF Truthy(RoutingEntry(cfg, "*")) THEN RoutingEntry(cfg, "*")
    ELSE IF /\ eventType \in {"pull_request", "pull_request_review"}
            /\ Truthy(cfg.prReviewSession)
         THEN cfg.prReviewSession
    ELSE IF eventType \in {"release", "push"} /\ Truthy(cfg.releaseSession)
         THEN cfg.releaseSession
    ELSE ""

\* lines 1332-1374.  "" stands for null; repo is Undefined when not given;
\* hasCtx is whether ctx is set, cfg what ctx.getConfig() returns
\* (cfg.present is whether it returns a configuration at all)
resolveSessionFromConfig(eventType, repo, subs, hasCtx, cfg) ==
    IF /\ Truthy(repo) /\ repo \in DOMAIN subs /\ Truthy(subs[repo].session)
    THEN subs[repo].session
    ELSE IF ~hasCtx \/ ~cfg.present THEN ""
    ELSE LET exactRoute == RoutingEntry(cfg, eventType)
             wildcard   == RoutingEntry(cfg, "*")
         IN IF exactRoute # Undefined /\ trim(exactRoute) # "" THEN exactRoute
            ELSE IF wildcard # Undefined /\ trim(wildcard) # "" THEN wildcard
            ELSE IF /\ eventType \in {"pull_request", "pull_request_review"}
                    /\ Truthy(cfg.prReviewSession)
                 THEN cfg.prReviewSession
            ELSE IF /\ eventType \in {"release", "push"}
                    /\ Truthy(cfg.releaseSession)
                 THEN cfg.releaseSession
            ELSE ""

MissingEventType == "Missing event type"

NoSessionFor(eventType) == "No session configured for event type: " \o eventType

\* What is not a string where one is expected (a number, an object)
NotAString == "<not a string>"

handleWebhook_Unchecked(event, subs, hasCtx, cfg) ==
    LET repo    == IF event.full_name = NotAString THEN Undefined ELSE event.full_name
        session == resolveSessionFromConfig(event.eventType, repo, subs, hasCtx, cfg)
    IN IF session = ""
       THEN [routed |-> FALSE, session |-> "", reason |-> NoSessionFor(event.eventType)]
       ELSE [routed |-> TRUE, session |-> session, reason |-> ""]

\* lines 1563-1594.  event = [eventType, full_name]: full_name is
\* payload.repository?.full_name, Undefined when the payload has none
handleWebhook(event, subs, hasCtx, cfg) ==
    IF ~Truthy(event.eventType)
    THEN [routed |-> FALSE, session |-> "", reason |-> MissingEventType]
    ELSE LET repo    == IF event.full_name = NotAString
                        THEN Undefined ELSE event.full_name
             session == resolveSessionFromConfig(event.eventType, repo, subs,
                                                 hasCtx, cfg)
         IN IF session = ""
            THEN [routed |-> FALSE, session |-> "",
                  reason |-> NoSessionFor(event.eventType)]
            ELSE [routed |-> TRUE, session |-> session, reason |-> ""]

\* No routing configured, no event routed yet
NoRouting ==
    [present |-> FALSE, hasRouting |-> FALSE, routing |-> <<>>,
     prReviewSession |-> Undefined, releaseSession |-> Undefined]

NoRoute ==
    [op |-> "none", eventType |-> "", full_name |-> Undefined,
     res |-> [routed |-> FALSE, session |-> "", reason |-> ""]]

---------------------------------------------------------------------------
(* The environment of the organization-scope runs *)

Hosts == {"h1", "h2"}

OrgScope == "orgs/acme"

\* "acme" exists on GitHub; "../evil" is a path-traversal attempt
OrgInputs == {"acme", "../evil"}

\* webhooks.getConfig(): complete, without token, absent
WebhooksConfigs ==
    {[present |-> TRUE,  basePath |-> "/hooks", token |-> "s3cret"],
     [present |-> TRUE,  basePath |-> "/hooks", token |-> ""],
     [present |-> FALSE, basePath |-> "", token |-> ""]}

\* URLs hooks may carry before the plugin first runs: the delivery URL under
\* either hostname, and somebody else's hook
HookUrls(cfg) ==
    {"https://" \o h \o cfg.basePath \o "/github" : h \in Hosts}
        \cup {"https://ci.example/build"}

\* A run that fails gh auth status makes no further invocation, and a create
\* that fails prints no id to parse
Outcomes ==
    {o \in [auth : BOOLEAN, list1 : BOOLEAN, list2 : BOOLEAN,
            patch : BOOLEAN, create : BOOLEAN, parse : BOOLEAN] :
        /\ o.auth \/ (o.list1 /\ o.list2 /\ o.patch /\ o.create /\ o.parse)
        /\ o.create \/ o.parse}

\* updateOrgWebhook creates nothing: its runs never read create and parse
UpdateOutcomes == {o \in Outcomes : o.create /\ o.parse}

NoWebhooksConfig == [present |-> FALSE, basePath |-> "", token |-> ""]

\* What ctx?.getExtension(...) gives: nothing while ctx is null
Env ==
    IF ctx THEN [hostname |-> hostname, whConfig |-> whConfig]
    ELSE [hostname |-> "", whConfig |-> NoWebhooksConfig]

Suffix == whConfig.basePath \o "/github"

SuffixHooks(hooks) == {i \in 1..Len(hooks) : EndsWith(hooks[i].url, Suffix)}

HooksWithUrl(hooks, url) == {i \in 1..Len(hooks) : hooks[i].url = url}

\* A call that is given no options
NoOptions == [events |-> Undefined, session |-> Undefined]

NoOp ==
    [op |-> "none", arg |-> "", old |-> "", opt |-> NoOptions, url |-> "",
     res |-> Fail("none"), calls |-> <<>>, io |-> <<>>, warned |-> <<>>,
     results |-> <<>>]

NoPrev == [same |-> FALSE, res |-> Fail("none"), writes |-> {}]

\* No invocation is suspended
NoTasks == <<>>

\* The verdicts on invocations a run never made are immaterial: they are
\* taken as TRUE, so that each run is drawn once.
Consumed(o, calls) ==
    LET lists == {i \in 1..Len(calls) : calls[i].kind = "list"} IN
    /\ o.auth \/ \E i \in 1..Len(calls) : calls[i].kind = "auth"
    /\ o.list1 \/ Cardinality(lists) >= 1
    /\ o.list2 \/ Cardinality(lists) >= 2
    /\ o.patch \/ \E i \in 1..Len(calls) : calls[i].kind = "patch"
    /\ o.create \/ \E i \in 1..Len(calls) : calls[i].kind = "create"
    /\ o.parse \/ \E i \in 1..Len(calls) : calls[i].kind = "create" /\ calls[i].ok

\* The bookkeeping every operation shares: the state the run leaves and the
\* record of the run.
RanStep(op, arg, old, opt, url, d, results) ==
    /\ d.run.nextId <= (IF OrgScope \in DOMAIN remote THEN MaxHooks ELSE MaxRepoHooks) + 1
    /\ remote' = d.run.remote
    /\ nextId' = d.run.nextId
    /\ ctx' = d.run.ctx
    /\ subscriptions' = d.run.subs
    /\ storage' = d.run.storage
    /\ table' = d.run.table
    /\ legacyFile' = d.run.file
    /\ handlers' = d.run.handlers
    /\ pluginCtx' = d.run.host
    /\ last' = [op |-> op, arg |-> arg, old |-> old, opt |-> opt, url |-> url,
                res |-> d.res, calls |-> d.run.calls, io |-> d.run.io,
                warned |-> d.run.warned, results |-> results]
    /\ prev' = IF /\ op = "setupOrgWebhook"
                  /\ last.op = op /\ last.arg = arg /\ last.url = url
                  /\ AllCallsOk(last.calls)
               THEN [same |-> TRUE, res |-> last.res,
                     writes |-> CallKinds(last.calls) \cap {"patch", "create"}]
               ELSE NoPrev
    /\ removed' = IF ~pluginCtx.extension THEN removed
                  ELSE IF op = "unsubscribeRepo" /\ d.res.success
                  THEN removed \cup {arg}
                  ELSE IF op = "subscribeRepo" /\ d.res.success
                  THEN removed \ {arg}
                  ELSE removed

\* An operation that runs from its call to its return with nothing in between
RanAll(op, arg, old, opt, url, d, results) ==
    /\ RanStep(op, arg, old, opt, url, d, results)
    /\ UNCHANGED tasks

\* One operation: its result is all there is
RanCall(op, arg, old, opt, url, d) == RanAll(op, arg, old, opt, url, d, <<>>)

\* An operation that is given no options
RanFrom(op, arg, old, url, d) == RanCall(op, arg, old, NoOptions, url, d)

\* An operation that is given no old hostname either
Ran(op, arg, url, d) == RanFrom(op, arg, "", url, d)

ValidateVars == <<vOrg, vRes>>

RouteVars == <<config, route>>

---------------------------------------------------------------------------
(* Organization scope: the operations as steps *)

SetupOrgWebhook ==
    \E org \in OrgInputs, o \in Outcomes :
        \E d \in {setupOrgWebhook(org, Env, o, RunNow)} :
        /\ Consumed(o, d.run.calls)
        /\ Ran("setupOrgWebhook", org, getWebhookUrl(Env), d)
        /\ UNCHANGED <<hostname, whConfig, ValidateVars, RouteVars>>

UpdateOrgWebhook ==
    \E org \in OrgInputs, old \in Hosts, new \in Hosts, o \in UpdateOutcomes :
        \E d \in {updateOrgWebhook(org, old, new, Env, o, RunNow)} :
        /\ Consumed(o, d.run.calls)
        /\ RanFrom("updateOrgWebhook", org, HostUrl(old, whConfig),
                   HostUrl(new, whConfig), d)
        /\ UNCHANGED <<hostname, whConfig, ValidateVars, RouteVars>>

\* The funnel is assigned another hostname, or loses it
HostnameChanges ==
    /\ \E h \in Hosts \cup {""} : h # hostname /\ hostname' = h
    /\ UNCHANGED <<remote, nextId, whConfig, ctx, subscriptions, storage, table,
                   legacyFile, last, prev, ValidateVars, RouteVars, handlers,
                   pluginCtx, removed, tasks>>

InitOrg ==
    /\ whConfig \in WebhooksConfigs
    /\ \E urls \in UNION {[1..m -> HookUrls(whConfig)] : m \in 0..2} :
          /\ remote = (OrgScope :> [i \in 1..Len(urls) |-> [id |-> i, url |-> urls[i]]])
          /\ nextId = Len(urls) + 1
    /\ hostname \in Hosts \cup {""}
    /\ ctx = TRUE
    /\ subscriptions = <<>>
    /\ storage = FALSE
    /\ table = <<>>
    /\ legacyFile = [state |-> "absent", content |-> <<>>]
    /\ last = NoOp
    /\ prev = NoPrev
    /\ config = NoRouting
    /\ route = NoRoute
    /\ handlers = NoHandlers
    /\ pluginCtx = NoEmitter
    /\ removed = {}
    /\ tasks = NoTasks
    /\ vOrg = ""
    /\ vRes = FALSE

NextOrg == SetupOrgWebhook \/ UpdateOrgWebhook \/ HostnameChanges

SpecOrg == InitOrg /\ [][NextOrg]_vars

---------------------------------------------------------------------------
(* Organization scope: properties *)

\* A step that ran an operation: the funnel's hostname is what it was
OpStep == hostname' = hostname

Writes(calls) == {i \in 1..Len(calls) : calls[i].kind \in {"patch", "create"}}

Issued(calls, kind) == \E i \in 1..Len(calls) : calls[i].kind = kind

IssuedOk(calls, kind) == \E i \in 1..Len(calls) : calls[i].kind = kind /\ calls[i].ok

\* The calls of a run that go to GitHub's API: everything but gh auth status
ApiCalls(calls) == {i \in 1..Len(calls) : calls[i].kind # "auth"}

\* The run got past authentication, desired URL and token: it listed hooks
Reconciled(l) == l.op = "setupOrgWebhook" /\ Issued(l.calls, "list")

\* C1: for every org string that fails validateOrg, setupOrgWebhook and
\* updateOrgWebhook return the InvalidIdentifier failure and issue no remote
\* call at all.
C1_InvalidOrgNoRemoteCall ==
    (last.op \in {"setupOrgWebhook", "updateOrgWebhook"} /\ ~validateOrg(last.arg))
        => (last.res = Fail("InvalidIdentifier") /\ last.calls = <<>>)

C1_Witness ==
    /\ last.op = "setupOrgWebhook"
    /\ ~validateOrg(last.arg)
    /\ last.res.kind = "InvalidIdentifier"

\* C4: a setupOrgWebhook that directly follows a setupOrgWebhook for the same
\* org and the same desired URL, every remote call of both succeeding, returns
\* the id the first one returned and issues no create and no patch.
C4_SetupTwiceSameIdNoWrite ==
    (/\ last.op = "setupOrgWebhook"
     /\ prev.same /\ prev.res.kind # "InvalidResponseFormat"
     /\ AllCallsOk(last.calls))
        => (/\ last.res.success = prev.res.success
            /\ last.res.webhookId = prev.res.webhookId
            /\ Writes(last.calls) = {})

C4_Witness ==
    /\ last.op = "setupOrgWebhook"
    /\ prev.same /\ prev.res.success
    /\ prev.writes = {"create"}
    /\ AllCallsOk(last.calls)
    /\ last.res.success
    /\ last.res.webhookId = prev.res.webhookId

\* The one hook of the org carrying the suffix, when it is stale for `url`
OnlyStale(hooks, url) ==
    /\ Cardinality(SuffixHooks(hooks)) = 1
    /\ HooksWithUrl(hooks, url) = {}

StaleId(hooks) == hooks[CHOOSE i \in SuffixHooks(hooks) : TRUE].id

\* C5: with exactly one hook carrying the {basePath}/github suffix, under a
\* stale host, a setupOrgWebhook whose remote calls succeed patches that hook
\* in place, returns its id and creates nothing; the setupOrgWebhook that
\* follows with the same desired URL finds the exact match and issues no
\* patch and no create.
C5_PatchInPlace ==
    (/\ OpStep
     /\ Reconciled(last') /\ AllCallsOk(last'.calls)
     /\ last'.arg = "acme"
     /\ OnlyStale(remote[OrgScope], last'.url))
        => (/\ remote'[OrgScope] =
                  SetUrl(remote[OrgScope], StaleId(remote[OrgScope]), last'.url)
            /\ last'.res = Ok(last'.url, StaleId(remote[OrgScope]))
            /\ ~Issued(last'.calls, "create"))

C5_ThenExact ==
    (/\ last.op = "setupOrgWebhook"
     /\ prev.same /\ prev.writes = {"patch"}
     /\ AllCallsOk(last.calls))
        => (/\ last.res = prev.res
            /\ Writes(last.calls) = {})

C5_StaleConvergence == [][C5_PatchInPlace]_vars /\ []C5_ThenExact

C5_Witness ==
    /\ last.op = "setupOrgWebhook"
    /\ prev.same /\ prev.writes = {"patch"} /\ prev.res.success
    /\ AllCallsOk(last.calls)
    /\ last.res = prev.res
    /\ Cardinality(SuffixHooks(remote[OrgScope])) = 1

\* The k-th listing of a run, and whether it came back
ListCall(calls, k) ==
    LET lists == {i \in 1..Len(calls) : calls[i].kind = "list"} IN
    IF Cardinality(lists) < k THEN [made |-> FALSE, ok |-> FALSE]
    ELSE LET i == CHOOSE i \in lists :
                     Cardinality({j \in lists : j <= i}) = k
         IN [made |-> TRUE, ok |-> calls[i].ok]

ExactExists(hooks, url) == HooksWithUrl(hooks, url) # {}

StaleExists(hooks) == SuffixHooks(hooks) # {}

\* C6 as claimed: an exact match is returned and nothing is written, even
\* with a stale hook beside it; otherwise a stale hook is patched, and no
\* create is issued while the patch succeeds; a create is issued only when
\* neither exists.
C6_PrecedenceAsClaimed ==
    (OpStep /\ Reconciled(last') /\ last'.arg = "acme")
        => LET hooks == remote[OrgScope]
               l     == last'
           IN /\ ExactExists(hooks, l.url)
                    => /\ l.res.success
                       /\ l.res.webhookId \in
                              {hooks[i].id : i \in HooksWithUrl(hooks, l.url)}
                       /\ Writes(l.calls) = {}
              /\ (~ExactExists(hooks, l.url) /\ StaleExists(hooks))
                    => /\ Issued(l.calls, "patch")
                       /\ IssuedOk(l.calls, "patch") => ~Issued(l.calls, "create")
              /\ Issued(l.calls, "create")
                    => (~ExactExists(hooks, l.url) /\ ~StaleExists(hooks))

C6_PrecedenceOverListings ==
    (OpStep /\ Reconciled(last') /\ last'.arg = "acme")
        => LET hooks == remote[OrgScope]
               l     == last'
               exact == ListCall(l.calls, 1).ok /\ ExactExists(hooks, l.url)
               stale == ListCall(l.calls, 2).ok /\ StaleExists(hooks)
           IN /\ exact
                    => /\ l.res.success
                       /\ l.res.webhookId \in
                              {hooks[i].id : i \in HooksWithUrl(hooks, l.url)}
                       /\ Writes(l.calls) = {}
                       /\ remote' = remote
              /\ (~exact /\ stale)
                    => /\ Issued(l.calls, "patch")
                       /\ IssuedOk(l.calls, "patch") => ~Issued(l.calls, "create")
              /\ Issued(l.calls, "create")
                    => \/ ~exact /\ ~stale
                       \/ ~exact /\ Issued(l.calls, "patch")
                                 /\ ~IssuedOk(l.calls, "patch")

C7_SuffixHooksStayUnique ==
    (/\ OpStep
     /\ AllCallsOk(last'.calls)
     /\ Cardinality(SuffixHooks(remote[OrgScope])) <= 1)
        => Cardinality(SuffixHooks(remote'[OrgScope])) <= 1

C7_NoAccumulation == [][C7_SuffixHooksStayUnique]_vars

\* a hook created under h1, then moved by a later run to another hostname
C7_Witness ==
    /\ last.op \in {"setupOrgWebhook", "updateOrgWebhook"}
    /\ IssuedOk(last.calls, "patch") /\ AllCallsOk(last.calls)
    /\ Len(remote[OrgScope]) = 1
    /\ Cardinality(SuffixHooks(remote[OrgScope])) = 1
    /\ nextId = 2

\* An updateOrgWebhook step on a valid org that got past gh auth status and
\* the webhooks configuration: it looked the new URL up
UpdateLooked ==
    /\ OpStep
    /\ last'.op = "updateOrgWebhook"
    /\ validateOrg(last'.arg)
    /\ IssuedOk(last'.calls, "auth")
    /\ whConfig.present

FirstWithUrl(hooks, url) ==
    hooks[CHOOSE i \in HooksWithUrl(hooks, url) :
              \A j \in HooksWithUrl(hooks, url) : i <= j].id

\* C13 as stated: updateOrgWebhook, when a registration with the new URL
\* exists, returns success with that registration's id and issues no patch.
C13_AlreadyUpdatedAsClaimed ==
    (UpdateLooked /\ ExactExists(remote[OrgScope], last'.url)) =>
        /\ last'.res = Ok(last'.url, FirstWithUrl(remote[OrgScope], last'.url))
        /\ ~Issued(last'.calls, "patch")

C13_AlreadyUpdatedNoPatch ==
    (/\ UpdateLooked
     /\ ExactExists(remote[OrgScope], last'.url)
     /\ ListCall(last'.calls, 1).ok) =>
        /\ last'.res = Ok(last'.url, FirstWithUrl(remote[OrgScope], last'.url))
        /\ Writes(last'.calls) = {}
        /\ remote' = remote

C13_SuccessLeavesNewUrl ==
    (last.op = "updateOrgWebhook" /\ last.res.success) =>
        /\ ExactExists(remote[OrgScope], last.url)
        /\ last.res.webhookId \in
               {remote[OrgScope][i].id : i \in HooksWithUrl(remote[OrgScope], last.url)}

C14_NothingToUpdate ==
    (/\ UpdateLooked
     /\ ~ExactExists(remote[OrgScope], last'.url)
     /\ ~ExactExists(remote[OrgScope], last'.old)) =>
        /\ last'.res = Fail("NoExistingRegistration")
        /\ Writes(last'.calls) = {}
        /\ remote' = remote

C14_NoExistingRegistration == [][C14_NothingToUpdate]_vars

\* both listings came back, and showed only somebody else's hook
C14_Witness ==
    /\ last.op = "updateOrgWebhook"
    /\ last.res = Fail("NoExistingRegistration")
    /\ AllCallsOk(last.calls)
    /\ ListCall(last.calls, 2).made
    /\ last.old # last.url
    /\ Len(remote[OrgScope]) >= 1
    /\ ~ExactExists(remote[OrgScope], last.url)
    /\ ~ExactExists(remote[OrgScope], last.old)

---------------------------------------------------------------------------
(* setupOrgWebhook's preconditions, the webhooks configuration with an      *)
(* empty base path included                                                 *)

EmptyBasePathConfig == [present |-> TRUE, basePath |-> "", token |-> "s3cret"]

InitSetup ==
    /\ whConfig \in WebhooksConfigs \cup {EmptyBasePathConfig}
    /\ remote = (OrgScope :> <<>>)
    /\ nextId = 1
    /\ hostname \in Hosts \cup {""}
    /\ ctx = TRUE
    /\ subscriptions = <<>>
    /\ storage = FALSE
    /\ table = <<>>
    /\ legacyFile = [state |-> "absent", content |-> <<>>]
    /\ last = NoOp
    /\ prev = NoPrev
    /\ config = NoRouting
    /\ route = NoRoute
    /\ handlers = NoHandlers
    /\ pluginCtx = NoEmitter
    /\ removed = {}
    /\ tasks = NoTasks
    /\ vOrg = ""
    /\ vRes = FALSE

SpecSetup == InitSetup /\ [][NextOrg]_vars

SetupStep == OpStep /\ last'.op = "setupOrgWebhook" /\ validateOrg(last'.arg)

\* C15: for a valid org, setupOrgWebhook checks authentication, then that the
\* desired URL is available (hostname and delivery base path both present and
\* non-empty), then that the token is configured; the first that fails
\* determines the error (NotAuthenticated, NoUrlAvailable, NoTokenConfigured)
\* and in each case no list, patch or create call is issued.
C15_PreconditionsAsClaimed ==
    SetupStep =>
        LET authOk   == IssuedOk(last'.calls, "auth")
            urlOk    == whConfig.present /\ whConfig.basePath # "" /\ hostname # ""
            tokenOk  == whConfig.present /\ whConfig.token # ""
            expected == IF ~authOk THEN "NotAuthenticated"
                        ELSE IF ~urlOk THEN "NoUrlAvailable"
                        ELSE IF ~tokenOk THEN "NoTokenConfigured"
                        ELSE "none"
        IN expected # "none" =>
              /\ last'.res = Fail(expected)
              /\ ApiCalls(last'.calls) = {}

C15_PreconditionOrder == [][C15_PreconditionsAsClaimed]_vars

---------------------------------------------------------------------------
(* validateOrg on its own: identifiers typed character by character, and   *)
(* long ones made by padding a typed prefix with a run of letters           *)

TypedChars == {"a", "Z", "7", "-", ".", "_", "/", " "}

MaxOrgLength == 39      \* the longest identifier the allow-list admits

PadLengths == (MaxOrgLength - MaxTyped - 3)..(MaxOrgLength + 1)

OtherVars ==
    <<remote, nextId, hostname, whConfig, ctx, subscriptions, storage, table,
      legacyFile, last, prev, handlers, pluginCtx, removed, tasks>>

TypeChar ==
    /\ Len(vOrg) < MaxTyped
    /\ \E c \in TypedChars : vOrg' = vOrg \o c
    /\ vRes' = validateOrg(vOrg')
    /\ UNCHANGED <<OtherVars, RouteVars>>

PadAndClose ==
    /\ Len(vOrg) <= MaxTyped
    /\ \E n \in PadLengths, c \in TypedChars :
          vOrg' = vOrg \o Repeat("a", n - Len(vOrg) - 1) \o c
    /\ vRes' = validateOrg(vOrg')
    /\ UNCHANGED <<OtherVars, RouteVars>>

InitValidate ==
    /\ remote = (OrgScope :> <<>>)
    /\ nextId = 1
    /\ hostname = ""
    /\ whConfig = NoWebhooksConfig
    /\ ctx = FALSE
    /\ subscriptions = <<>>
    /\ storage = FALSE
    /\ table = <<>>
    /\ legacyFile = [state |-> "absent", content |-> <<>>]
    /\ last = NoOp
    /\ prev = NoPrev
    /\ config = NoRouting
    /\ route = NoRoute
    /\ handlers = NoHandlers
    /\ pluginCtx = NoEmitter
    /\ removed = {}
    /\ tasks = NoTasks
    /\ vOrg = ""
    /\ vRes = validateOrg("")

NextValidate == TypeChar \/ PadAndClose

SpecValidate == InitValidate /\ [][NextValidate]_vars

\* The allow-list of the specification: alphanumeric, hyphen, dot,
\* underscore; 1 to 39 characters; no separator first or last
OnAllowList(s) ==
    /\ Len(s) \in 1..MaxOrgLength
    /\ \A i \in 1..Len(s) : CharAt(s, i) \in IdentChars
    /\ CharAt(s, 1) \notin SeparatorChars
    /\ CharAt(s, Len(s)) \notin SeparatorChars

Whitespace == {" "}

\* C2: validateOrg returns true for every string on the allow-list, and false
\* for every string that contains "/", contains "..", contains whitespace,
\* starts or ends with a separator, or is longer than 39 characters.
C2_ValidateOrgAsClaimed ==
    /\ OnAllowList(vOrg) => vRes
    /\ (\/ Includes(vOrg, "/")
        \/ Includes(vOrg, "..")
        \/ \E w \in Whitespace : Includes(vOrg, w)
        \/ Len(vOrg) >= 1 /\ CharAt(vOrg, 1) \in SeparatorChars
        \/ Len(vOrg) >= 1 /\ CharAt(vOrg, Len(vOrg)) \in SeparatorChars
        \/ Len(vOrg) > MaxOrgLength) => ~vRes

\* What of C2 the code does keep: everything but the ".." clause
C2_ValidateOrgButDotDot ==
    /\ OnAllowList(vOrg) <=> vRes
    /\ (\/ Includes(vOrg, "/")
        \/ \E w \in Whitespace : Includes(vOrg, w)
        \/ Len(vOrg) >= 1 /\ CharAt(vOrg, 1) \in SeparatorChars
        \/ Len(vOrg) >= 1 /\ CharAt(vOrg, Len(vOrg)) \in SeparatorChars
        \/ Len(vOrg) > MaxOrgLength) => ~vRes

---------------------------------------------------------------------------
(* Repository scope and the plugin lifecycle: the environment *)

RepoScope == "repos/o/r"

\* "o/r" exists on GitHub; "../.." has the owner/name shape; "o r" has not
RepoInputs == {"o/r", "../..", "o r"}

SubscribeOptions ==
    {[events |-> Undefined, session |-> Undefined],
     [events |-> <<"push">>, session |-> "s1"]}

Times == {"t1"}

\* What data/subscriptions.json, the storage table and the configuration may
\* hold when the plugin starts: records an earlier run of the plugin wrote
OldSub(repo, id) ==
    [repo |-> repo, webhookId |-> id, events |-> <<"push">>,
     session |-> Undefined, createdAt |-> "t0"]

LegacyFiles ==
    {[state |-> "absent", content |-> <<>>],
     [state |-> "corrupt", content |-> <<>>],
     [state |-> "readable", content |-> ("o/r" :> OldSub("o/r", 1))],
     [state |-> "readable",
      content |-> ("o/r" :> OldSub("o/r", 1)) @@ ("p/q" :> OldSub("p/q", 7))]}

StoredTables == {<<>>, ("o/r" :> OldSub("o/r", 1))}

\* A legacy file that does not know the repository the table has a row for
StrayLegacyFile == [state |-> "readable", content |-> ("p/q" :> OldSub("p/q", 7))]

ConfigSubscriptions ==
    {<<>>,
     ("o/r" :> OldSub("o/r", 1)),
     ("o/r" :> OldSub("o/r", 2)) @@ ("p/q" :> OldSub("p/q", 7))}

\* ctx.getConfig() as init reads it: the subscriptions embedded in it and
\* the organizations
PluginConfigs(Subs, OrgLists) == [subscriptions : Subs, orgs : OrgLists]

ConfigOrgs == {<<>>, <<"acme">>}

InitOptions(cfg) ==
    [events |-> Undefined, session |-> Undefined,
     subscriptions |-> cfg.subscriptions, orgs |-> cfg.orgs]

\* The same for subscribeRepo, with the verdict on storage.put
SubscribeOutcomes ==
    {o \in [auth : BOOLEAN, list1 : BOOLEAN, create : BOOLEAN, parse : BOOLEAN,
            put : BOOLEAN] :
        /\ o.auth \/ (o.list1 /\ o.create /\ o.parse /\ o.put)
        /\ o.create \/ o.parse}

DeleteVerdicts == {"ok", NotFoundText, "gh: Server Error (HTTP 500)"}

UnsubscribeOutcomes ==
    {o \in [auth : BOOLEAN, delete : DeleteVerdicts, del : BOOLEAN] :
        o.auth \/ (o.delete = "ok" /\ o.del)}

UpdateRepoOutcomes ==
    [list1 : BOOLEAN, list2 : BOOLEAN, patch : BOOLEAN, put : BOOLEAN]

InitVerdicts ==
    [putFail : SUBSET {"o/r", "p/q"}, list : BOOLEAN, unlink : BOOLEAN,
     gh : BOOLEAN, auth : BOOLEAN]

IoKinds(io) == {io[i].kind : i \in 1..Len(io)}

\* Verdicts on accesses a run never made are taken as passing
ConsumedRepo(o, run) ==
    LET lists == {i \in 1..Len(run.calls) : run.calls[i].kind = "list"}
        F     == DOMAIN o
    IN /\ "auth" \in F => (o.auth \/ Issued(run.calls, "auth"))
       /\ "list1" \in F => (o.list1 \/ Cardinality(lists) >= 1)
       /\ "list2" \in F => (o.list2 \/ Cardinality(lists) >= 2)
       /\ "patch" \in F => (o.patch \/ Issued(run.calls, "patch"))
       /\ "create" \in F => (o.create \/ Issued(run.calls, "create"))
       /\ "parse" \in F => (o.parse \/ IssuedOk(run.calls, "create"))
       /\ "put" \in F => (o.put \/ "put" \in IoKinds(run.io))
       /\ "del" \in F => (o.del \/ "delete" \in IoKinds(run.io))
       /\ "delete" \in F => (o.delete = "ok" \/ Issued(run.calls, "delete"))
       /\ "list" \in F => (o.list \/ "list" \in IoKinds(run.io))
       /\ "unlink" \in F => (o.unlink \/ "unlink" \in IoKinds(run.io))
       /\ "putFail" \in F =>
              o.putFail \subseteq {run.io[i].key : i \in 1..Len(run.io)}

---------------------------------------------------------------------------
(* Repository scope and the plugin lifecycle: the operations as steps *)

PluginInitOver(Configs, Verdicts) ==
    \E hasStorage \in BOOLEAN, cfg \in Configs, v \in Verdicts :
        \E d \in {pluginInit(hasStorage, cfg, v, RunNow)} :
        /\ ConsumedRepo(v, d.run)
        /\ v.auth \/ v.gh
        /\ RanCall("init", "", "", InitOptions(cfg), "", d)
        /\ UNCHANGED <<hostname, whConfig, ValidateVars, RouteVars>>

PluginInit ==
    PluginInitOver(PluginConfigs(ConfigSubscriptions, ConfigOrgs), InitVerdicts)

PluginShutdown ==
    /\ \E d \in {pluginShutdown(RunNow)} : Ran("shutdown", "", "", d)
    /\ UNCHANGED <<hostname, whConfig, ValidateVars, RouteVars>>

SubscribeRepoOver(Repos, Options, Verdicts) ==
    \E repo \in Repos, opt \in Options, now \in Times, o \in Verdicts :
        \E d \in {subscribeRepo(repo, opt, now, Env, o, RunNow)} :
        /\ ConsumedRepo(o, d.run)
        /\ RanCall("subscribeRepo", repo, "", opt, getWebhookUrl(Env), d)
        /\ UNCHANGED <<hostname, whConfig, ValidateVars, RouteVars>>

SubscribeRepo == SubscribeRepoOver(RepoInputs, SubscribeOptions, SubscribeOutcomes)

UnsubscribeRepoOver(Repos, Verdicts) ==
    \E repo \in Repos, o \in Verdicts :
        \E d \in {unsubscribeRepo(repo, o, RunNow)} :
        /\ ConsumedRepo(o, d.run)
        /\ Ran("unsubscribeRepo", repo, "", d)
        /\ UNCHANGED <<hostname, whConfig, ValidateVars, RouteVars>>

UnsubscribeRepo == UnsubscribeRepoOver(RepoInputs, UnsubscribeOutcomes)

\* The funnel:hostname-changed handler runs it for the repositories it
\* tracks, with the hostname the funnel has now and the one it had
UpdateRepoWebhook ==
    \E repo \in DOMAIN subscriptions, old \in Hosts \ {hostname},
       new \in Hosts \cap {hostname}, o \in UpdateRepoOutcomes :
        \E d \in {updateRepoWebhook(repo, old, new, Env, o, RunNow)} :
        /\ ConsumedRepo(o, d.run)
        /\ Ran("updateRepoWebhook", repo, HostUrl(new, whConfig), d)
        /\ UNCHANGED <<hostname, whConfig, ValidateVars, RouteVars>>

\* The repository operations, from a plugin that init has started: with or
\* without storage, tracking nothing or the repository it loaded
Init ==
    /\ whConfig \in WebhooksConfigs
    /\ \E urls \in UNION {[1..m -> HookUrls(whConfig)] : m \in 0..1} :
          /\ remote = (RepoScope :> [i \in 1..Len(urls) |-> [id |-> i, url |-> urls[i]]])
          /\ nextId = Len(urls) + 1
    /\ hostname \in Hosts \cup {""}
    /\ ctx = TRUE
    /\ storage \in BOOLEAN
    /\ subscriptions \in StoredTables
    /\ table = IF storage THEN subscriptions ELSE <<>>
    /\ legacyFile = [state |-> "absent", content |-> <<>>]
    /\ last = NoOp
    /\ prev = NoPrev
    /\ config = NoRouting
    /\ route = NoRoute
    /\ handlers = NoHandlers
    /\ pluginCtx = NoEmitter
    /\ removed = {}
    /\ tasks = NoTasks
    /\ vOrg = ""
    /\ vRes = FALSE

Next ==
    \/ SubscribeRepo
    \/ UnsubscribeRepo
    \/ UpdateRepoWebhook

Spec == Init /\ [][Next]_vars

\* The plugin's starts and stops, over what the file, the table and the
\* configuration may hold
InitStore ==
    /\ whConfig = NoWebhooksConfig
    /\ remote = (RepoScope :> <<>>)
    /\ nextId = 1
    /\ hostname = ""
    /\ ctx = FALSE
    /\ subscriptions = <<>>
    /\ storage = FALSE
    /\ table \in StoredTables
    /\ legacyFile \in LegacyFiles \cup {StrayLegacyFile}
    /\ last = NoOp
    /\ prev = NoPrev
    /\ config = NoRouting
    /\ route = NoRoute
    /\ handlers = NoHandlers
    /\ pluginCtx = NoEmitter
    /\ removed = {}
    /\ tasks = NoTasks
    /\ vOrg = ""
    /\ vRes = FALSE

NextStore == PluginInit \/ PluginShutdown

SpecStore == InitStore /\ [][NextStore]_vars

\* A context with an event emitter, before the plugin registered anything
WithEmitter == [events |-> TRUE, ready |-> 0, changed |-> 0, extension |-> FALSE]

\* What the environment may do to a life of the plugin: gh is installed and
\* authenticated and its listings come back; a create, a delete, and any
\* storage or file access may fail
LifeInitVerdicts ==
    {v \in InitVerdicts : v.gh /\ v.auth /\ v.putFail \in {{}, {"o/r", "p/q"}}}

LifeSubscribeOutcomes ==
    {o \in SubscribeOutcomes : o.auth /\ o.list1 /\ o.parse}

LifeUnsubscribeOutcomes ==
    {o \in UnsubscribeOutcomes : o.auth /\ o.delete # NotFoundText}

LifeConfigs ==
    PluginConfigs(ConfigSubscriptions, {<<"acme">>})

Start == PluginInitOver(LifeConfigs, LifeInitVerdicts)

\* The extension's subscribe and unsubscribe, reachable while init has
\* registered it
Subscribe ==
    /\ pluginCtx.extension
    /\ SubscribeRepoOver({"o/r"}, {NoOptions}, LifeSubscribeOutcomes)

Unsubscribe ==
    /\ pluginCtx.extension
    /\ UnsubscribeRepoOver({"o/r"}, LifeUnsubscribeOutcomes)

\* A whole life of the plugin: starts, stops, and the repository operations
\* in between, the funnel and the webhooks plugin being there
InitLife ==
    /\ whConfig = [present |-> TRUE, basePath |-> "/hooks", token |-> "s3cret"]
    /\ remote = (RepoScope :> <<>>)
    /\ nextId = 1
    /\ hostname = "h1"
    /\ ctx = FALSE
    /\ subscriptions = <<>>
    /\ storage = FALSE
    /\ table \in StoredTables
    /\ legacyFile \in {f \in LegacyFiles : DOMAIN f.content # {"o/r"}}
    /\ last = NoOp
    /\ prev = NoPrev
    /\ config = NoRouting
    /\ route = NoRoute
    /\ handlers = NoHandlers
    /\ pluginCtx \in {NoEmitter, WithEmitter}
    /\ removed = {}
    /\ tasks = NoTasks
    /\ vOrg = ""
    /\ vRes = FALSE

NextLife == Start \/ PluginShutdown \/ Subscribe \/ Unsubscribe

SpecLife == InitLife /\ [][NextLife]_vars

---------------------------------------------------------------------------
(* The signals: webhooks:ready and funnel:hostname-changed as steps *)

BetaScope == "orgs/beta"

\* config.orgs: none, one that fails validation before one that passes, and
\* two that pass
SignalOrgs == {<<>>, <<"../evil", "acme">>, <<"acme", "beta">>}

\* For each scope in turn: every call succeeds, or the calls of one of the
\* kinds named fail
Failing(Verdicts, fields) ==
    {o \in Verdicts : /\ Cardinality({f \in DOMAIN o : ~o[f]}) <= 1
                      /\ \A f \in DOMAIN o : ~o[f] => f \in fields}

SignalSetupOutcomes == Failing(Outcomes, {"auth", "list1", "create"})

SignalUpdateOutcomes == Failing(UpdateOutcomes, {"auth", "patch"})

SignalRepoOutcomes == Failing(UpdateRepoOutcomes, {"list1", "patch"})

\* The emitter delivers webhooks:ready to the listener init registered
WebhooksReady ==
    /\ pluginCtx.ready > 0
    /\ \E os \in [1..Len(handlers.orgs) -> SignalSetupOutcomes] :
          \E h \in {webhooksReadyHandler(Env, os, RunNow)} :
             RanAll("webhooks:ready", "", "", NoOptions, getWebhookUrl(Env),
                    Done(h.run, Completed), h.results)
    /\ UNCHANGED <<hostname, whConfig, ValidateVars, RouteVars>>

\* The funnel has moved to another hostname, or says again that it has, and
\* the emitter delivers funnel:hostname-changed
HostnameChanged ==
    /\ pluginCtx.changed > 0
    /\ \E new \in Hosts, old \in Hosts :
          /\ old # new
          /\ hostname' = new
          /\ \E os \in [1..Len(handlers.orgs) -> SignalUpdateOutcomes],
                rs \in [1..Cardinality(DOMAIN subscriptions) -> SignalRepoOutcomes] :
                \E h \in {hostnameChangedHandler(old, new, Env, os, rs, RunNow)} :
                   RanAll("funnel:hostname-changed", "", HostUrl(old, whConfig),
                          NoOptions, HostUrl(new, whConfig),
                          Done(h.run, Completed), h.results)
    /\ UNCHANGED <<whConfig, ValidateVars, RouteVars>>

\* After init on a context with an emitter: both listeners registered, the
\* organizations of the configuration held by the handlers, the repositories
\* tracked that an earlier run subscribed ("p/q" is gone from GitHub since)
InitSignal ==
    /\ whConfig \in {[present |-> TRUE, basePath |-> "/hooks", token |-> "s3cret"],
                      NoWebhooksConfig}
    /\ hostname = "h1"
    /\ \E urls \in {<<>>, <<HostUrl("h1", whConfig)>>, <<"https://ci.example/build">>} :
          \E subs \in {<<>>, ("o/r" :> OldSub("o/r", Len(urls) + 1))
                                  @@ ("p/q" :> OldSub("p/q", 7))} :
          /\ remote = (OrgScope :> [i \in 1..Len(urls) |-> [id |-> i, url |-> urls[i]]])
                       @@ (BetaScope :> <<>>)
                       @@ (RepoScope :>
                              IF subs = <<>> THEN <<>>
                              ELSE <<[id |-> Len(urls) + 1,
                                      url |-> HostUrl("h1", whConfig)]>>)
          /\ nextId = Len(urls) + (IF subs = <<>> THEN 1 ELSE 2)
          /\ subscriptions = subs
    /\ ctx = TRUE
    /\ storage = FALSE
    /\ table = <<>>
    /\ legacyFile = [state |-> "absent", content |-> <<>>]
    /\ last = NoOp
    /\ prev = NoPrev
    /\ config = NoRouting
    /\ route = NoRoute
    /\ handlers \in {[webhooksReadyHandler |-> TRUE, hostnameChangedHandler |-> TRUE,
                       orgs |-> orgs] : orgs \in SignalOrgs}
    /\ pluginCtx = [events |-> TRUE, ready |-> 1, changed |-> 1, extension |-> TRUE]
    /\ removed = {}
    /\ tasks = NoTasks
    /\ vOrg = ""
    /\ vRes = FALSE

NextSignal == WebhooksReady \/ HostnameChanged

SpecSignal == InitSignal /\ [][NextSignal]_vars

---------------------------------------------------------------------------
(* Overlapping invocations: each step runs one invocation from its call or *)
(* its await to its next await or its return, and another may run between. *)

Callers == {1, 2}

InFlight == {c \in DOMAIN tasks : tasks[c].pc # "returned"}

Returned == {c \in DOMAIN tasks : tasks[c].pc = "returned"}

\* The bookkeeping of one step of caller c's invocation; d = [run, task].
\* An invocation that begins while another is in flight overlaps it.
Stepped(c, d) ==
    LET t      == d.task
        begins == c \notin DOMAIN tasks
        done   == t.pc = "returned"
        t1     == [t EXCEPT !.calls = @ \o d.run.calls,
                            !.rank = IF done THEN Cardinality(Returned) ELSE @,
                            !.overlap = @ \/ (begins /\ InFlight # {})]
    IN /\ RanStep(t.op, t.arg, "",
                  IF t.op = "init" THEN InitOptions(t.cfg) ELSE t.opt,
                  getWebhookUrl(Env),
                  Done(d.run, IF done THEN t.res ELSE Pending), <<>>)
       /\ tasks' = [x \in (DOMAIN tasks) \cup {c} |->
                       IF x = c THEN t1
                       ELSE IF begins /\ tasks[x].pc # "returned"
                       THEN [tasks[x] EXCEPT !.overlap = TRUE]
                       ELSE tasks[x]]
       /\ UNCHANGED <<hostname, whConfig, ValidateVars, RouteVars>>

SessionOptions == [events |-> <<"push">>, session |-> "s1"]

\* A caller that has called nothing yet calls the extension's subscribe
BeginSubscribeOver(Cs, Repos, Options) ==
    /\ pluginCtx.extension
    /\ \E c \in Cs \ DOMAIN tasks, repo \in Repos, opt \in Options,
          o \in SubscribeOutcomes :
          \E d \in {subscribeResume(Task("subscribeRepo", repo, opt, NoConfig),
                                    "t1", Env, o, RunNow)} :
             /\ ConsumedRepo(o, d.run)
             /\ Stepped(c, d)

BeginSubscribe == BeginSubscribeOver(Callers, {"o/r"}, {NoOptions, SessionOptions})

\* A suspended subscribeRepo goes on
ResumeSubscribe ==
    \E c \in InFlight, o \in SubscribeOutcomes :
        /\ tasks[c].op = "subscribeRepo"
        /\ \E d \in {subscribeResume(tasks[c], "t1", Env, o, RunNow)} :
              /\ ConsumedRepo(o, d.run)
              /\ Stepped(c, d)

BeginSetup ==
    \E c \in Callers \ DOMAIN tasks, o \in Outcomes :
        \E d \in {setupResume(Task("setupOrgWebhook", "acme", NoOptions, NoConfig),
                              Env, o, RunNow)} :
           /\ Consumed(o, d.run.calls)
           /\ Stepped(c, d)

\* A suspended setupOrgWebhook goes on
ResumeSetup ==
    \E c \in InFlight, o \in Outcomes :
        /\ tasks[c].op = "setupOrgWebhook"
        /\ \E d \in {setupResume(tasks[c], Env, o, RunNow)} :
              /\ Consumed(o, d.run.calls)
              /\ Stepped(c, d)

\* Two callers, one invocation each, of a plugin that init has started with
\* storage; the organization has no hook, a stale one, or the desired one
InitOverlap ==
    /\ whConfig = [present |-> TRUE, basePath |-> "/hooks", token |-> "s3cret"]
    /\ hostname = "h1"
    /\ \E urls \in {<<>>, <<HostUrl("h2", whConfig)>>, <<HostUrl("h1", whConfig)>>} :
          /\ remote = (OrgScope :> [i \in 1..Len(urls) |-> [id |-> i, url |-> urls[i]]])
                         @@ (RepoScope :> <<>>)
          /\ nextId = Len(urls) + 1
    /\ ctx = TRUE
    /\ subscriptions = <<>>
    /\ storage = TRUE
    /\ table = <<>>
    /\ legacyFile = [state |-> "absent", content |-> <<>>]
    /\ last = NoOp
    /\ prev = NoPrev
    /\ config = NoRouting
    /\ route = NoRoute
    /\ handlers = NoHandlers
    /\ pluginCtx = [events |-> FALSE, ready |-> 0, changed |-> 0, extension |-> TRUE]
    /\ removed = {}
    /\ tasks = NoTasks
    /\ vOrg = ""
    /\ vRes = FALSE

NextOverlap == BeginSubscribe \/ ResumeSubscribe \/ BeginSetup \/ ResumeSetup

SpecOverlap == InitOverlap /\ [][NextOverlap]_vars

\* The host calls init, once
BeginInit ==
    \E hasStorage \in BOOLEAN, cfg \in PluginConfigs(ConfigSubscriptions, {<<>>}),
       v \in InitVerdicts :
        /\ 1 \notin DOMAIN tasks
        /\ \E d \in {initResume(Task("init", "", NoOptions, cfg), hasStorage, v, RunNow)} :
              /\ ConsumedRepo(v, d.run)
              /\ v.auth \/ v.gh
              /\ Stepped(1, d)

\* The suspended init goes on
ResumeInit ==
    \E v \in InitVerdicts :
        /\ 1 \in InFlight
        /\ tasks[1].op = "init"
        /\ \E d \in {initResume(tasks[1], storage, v, RunNow)} :
              /\ ConsumedRepo(v, d.run)
              /\ v.auth \/ v.gh
              /\ Stepped(1, d)

\* Another plugin calls the extension's subscribe, once
CallSubscribe == BeginSubscribeOver({2}, {"o/r"}, {SessionOptions})

\* Another plugin calls the extension's listSubscriptions
ListSubscriptions ==
    /\ pluginCtx.extension
    /\ RanStep("listSubscriptions", "", "", NoOptions, "",
               Done(RunNow, Completed), listedSubscriptions(RunNow))
    /\ UNCHANGED <<tasks, hostname, whConfig, ValidateVars, RouteVars>>

\* The plugin before init, the funnel and the webhooks plugin being there
InitLoad ==
    /\ whConfig = [present |-> TRUE, basePath |-> "/hooks", token |-> "s3cret"]
    /\ remote = (RepoScope :> <<>>)
    /\ nextId = 1
    /\ hostname = "h1"
    /\ ctx = FALSE
    /\ subscriptions = <<>>
    /\ storage = FALSE
    /\ table \in StoredTables
    /\ legacyFile \in LegacyFiles
    /\ last = NoOp
    /\ prev = NoPrev
    /\ config = NoRouting
    /\ route = NoRoute
    /\ handlers = NoHandlers
    /\ pluginCtx = NoEmitter
    /\ removed = {}
    /\ tasks = NoTasks
    /\ vOrg = ""
    /\ vRes = FALSE

NextLoad ==
    BeginInit \/ ResumeInit \/ CallSubscribe \/ ResumeSubscribe \/ ListSubscriptions

SpecLoad == InitLoad /\ [][NextLoad]_vars

---------------------------------------------------------------------------
(* Repository scope: properties of Spec *)

RepoOps == {"subscribeRepo", "unsubscribeRepo", "updateRepoWebhook"}

\* owner/name with both segments on the allow-list
RepoOnAllowList(repo) ==
    \E k \in 2..(Len(repo) - 1) :
        /\ CharAt(repo, k) = "/"
        /\ OnAllowList(SubSeq(repo, 1, k - 1))
        /\ OnAllowList(SubSeq(repo, k + 1, Len(repo)))

\* C3: every call subscribeRepo, unsubscribeRepo or updateRepoWebhook issues
\* on a repos/{owner}/{name}/... path is for an identifier whose segments are
\* on the allow-list; for an identifier that is not, no remote call is issued.
C3_RepoCallsValidated ==
    (last.op \in RepoOps /\ ApiCalls(last.calls) # {}) => RepoOnAllowList(last.arg)

Held(repo) == repo \in DOMAIN subscriptions

SubscribeStep == last'.op = "subscribeRepo" /\ Held(last'.arg)

RecordKept ==
    /\ last'.arg \in DOMAIN subscriptions'
    /\ subscriptions'[last'.arg] = subscriptions[last'.arg]
    /\ table' = table

\* C8 as stated: subscribeRepo for a repository the store holds returns
\* AlreadySubscribed, issues no list or create call and leaves the record as
\* it was.
C8_ResubscribeAsClaimed ==
    SubscribeStep =>
        /\ last'.res.kind = "AlreadySubscribed"
        /\ ~Issued(last'.calls, "list") /\ ~Issued(last'.calls, "create")
        /\ RecordKept

C8_Original == [][C8_ResubscribeAsClaimed]_vars

\* C8, amended: subscribeRepo for a repository the store holds issues no list
\* or create call and leaves the record and the storage table as they were;
\* it returns InvalidIdentifier for a malformed identifier, NotAuthenticated
\* when gh auth status fails, and AlreadySubscribed otherwise.
C8_ResubscribeRejected ==
    SubscribeStep =>
        /\ last'.res.kind =
              IF ~isValidRepo(last'.arg) THEN "InvalidIdentifier"
              ELSE IF ~IssuedOk(last'.calls, "auth") THEN "NotAuthenticated"
              ELSE "AlreadySubscribed"
        /\ ApiCalls(last'.calls) = {}
        /\ RecordKept

C8_Resubscribe == [][C8_ResubscribeRejected]_vars

C8_Witness ==
    /\ last.op = "subscribeRepo"
    /\ last.res.kind = "AlreadySubscribed"
    /\ Held(last.arg)
    /\ IssuedOk(last.calls, "auth")

\* The run deleted the hook on GitHub and GitHub answered not found
DeleteNotFound ==
    /\ last.op = "unsubscribeRepo"
    /\ \E i \in 1..Len(last.calls) :
          /\ last.calls[i].kind = "delete"
          /\ ~last.calls[i].ok
          /\ Includes(last.calls[i].stdout, "404")

StorageDeleted(ok) ==
    \E i \in 1..Len(last.io) : last.io[i].kind = "delete" /\ last.io[i].ok = ok

\* C9 as stated: unsubscribeRepo whose remote delete answers not found returns
\* success and removes the record from memory and from the structured store.
C9_NotFoundAsClaimed ==
    DeleteNotFound =>
        /\ last.res.success
        /\ ~Held(last.arg)
        /\ last.arg \notin DOMAIN table

\* C9, amended: unsubscribeRepo whose remote delete answers not found returns
\* success and removes the record from memory; with storage held it calls
\* storage.delete for the repository, and the row is gone when that call
\* succeeds (a delete that throws is logged and leaves the row).
C9_NotFoundStillUnsubscribes ==
    DeleteNotFound =>
        /\ last.res.success
        /\ ~Held(last.arg)
        /\ storage => StorageDeleted(TRUE) \/ StorageDeleted(FALSE)
        /\ StorageDeleted(TRUE) => last.arg \notin DOMAIN table

C9_Witness ==
    /\ DeleteNotFound
    /\ last.res.success
    /\ StorageDeleted(TRUE)
    /\ last.arg \notin DOMAIN table

---------------------------------------------------------------------------
(* The legacy file's migration: properties of SpecStore *)

\* init runs with storage on a readable legacy file that has entries, the
\* storage table being empty
MigrationStep ==
    /\ last'.op = "init"
    /\ storage'
    /\ legacyFile.state = "readable"
    /\ DOMAIN legacyFile.content # {}
    /\ table = <<>>

IoDone(io, kind, key, ok) ==
    \E i \in 1..Len(io) : io[i].kind = kind /\ io[i].key = key /\ io[i].ok = ok

\* C10 as stated: after init the structured store contains every entry of the
\* snapshot, listSubscriptions returns exactly those entries and the legacy
\* file has been deleted.
C10_MigrationAsClaimed ==
    MigrationStep =>
        /\ table' = legacyFile.content
        /\ listSubscriptions(subscriptions') = listSubscriptions(legacyFile.content)
        /\ legacyFile'.state = "absent"

C10_Original == [][C10_MigrationAsClaimed]_vars

\* C10, amended: after init listSubscriptions returns exactly the snapshot's
\* entries; storage.put was called for every entry, and the structured store
\* contains exactly the entries whose put succeeded; unlinkSync was called on
\* the legacy file, which is gone when that call succeeded and is left as it
\* was when it failed.
C10_MigrationDone ==
    MigrationStep =>
        /\ listSubscriptions(subscriptions') = listSubscriptions(legacyFile.content)
        /\ \A k \in DOMAIN legacyFile.content :
              \/ /\ IoDone(last'.io, "put", k, TRUE)
                 /\ k \in DOMAIN table' /\ table'[k] = legacyFile.content[k]
              \/ /\ IoDone(last'.io, "put", k, FALSE)
                 /\ k \notin DOMAIN table'
        /\ DOMAIN table' \subseteq DOMAIN legacyFile.content
        /\ \/ /\ IoDone(last'.io, "unlink", "subscriptions.json", TRUE)
              /\ legacyFile'.state = "absent"
           \/ /\ IoDone(last'.io, "unlink", "subscriptions.json", FALSE)
              /\ legacyFile' = legacyFile

C10_Migration == [][C10_MigrationDone]_vars

C10_Witness ==
    /\ last.op = "init"
    /\ storage
    /\ IoDone(last.io, "unlink", "subscriptions.json", TRUE)
    /\ IoDone(last.io, "put", "o/r", TRUE)
    /\ IoDone(last.io, "put", "p/q", TRUE)
    /\ legacyFile.state = "absent"
    /\ DOMAIN table = {"o/r", "p/q"}
    /\ listSubscriptions(subscriptions) = listSubscriptions(table)

---------------------------------------------------------------------------
(* Event routing: the router as steps *)

RouteKeys == {"pull_request", "*", ""}

\* The object whose keys are the entries that are there
RoutingOf(c) == [k \in {x \in RouteKeys : c[x] # Undefined} |-> c[k]]

RoutingTables ==
    {RoutingOf(c) : c \in [RouteKeys -> {Undefined, "", " ", "A"}]} \cup
    {RoutingOf([c EXCEPT !["*"] = "B"]) :
         c \in [RouteKeys -> {Undefined, "", " ", "A"}]}

\* getConfig() returns nothing, a configuration without routing table, or
\* one with a table
GitHubConfigs ==
    {NoRouting} \cup
    [present : {TRUE}, hasRouting : {FALSE}, routing : {<<>>},
     prReviewSession : {Undefined, "P"}, releaseSession : {Undefined, "R"}] \cup
    [present : {TRUE}, hasRouting : {TRUE}, routing : RoutingTables,
     prReviewSession : {Undefined, "P"}, releaseSession : {Undefined, "R"}]

\* The store tracks nothing, o/r without a session, or o/r with session C
RouteSubscriptions ==
    {<<>>,
     "o/r" :> OldSub("o/r", 1),
     "o/r" :> [OldSub("o/r", 1) EXCEPT !.session = "C"]}

EventTypes == {"pull_request", "push", "issues", "*", "", Undefined}

FullNames == {Undefined, NotAString, "", "o/r", "p/q"}

HandleWebhook ==
    /\ \E eventType \in EventTypes, full_name \in FullNames :
          route' = [op |-> "handleWebhook", eventType |-> eventType,
                    full_name |-> full_name,
                    res |-> handleWebhook([eventType |-> eventType,
                                           full_name |-> full_name],
                                          subscriptions, ctx, config)]
    /\ UNCHANGED <<OtherVars, config, ValidateVars>>

\* githubExtension.resolveSession(eventType): the resolver without repository
ResolveSession ==
    /\ \E eventType \in EventTypes \ {Undefined} :
          route' = [op |-> "resolveSession", eventType |-> eventType,
                    full_name |-> Undefined,
                    res |-> [routed |-> FALSE, reason |-> "",
                             session |-> resolveSessionFromConfig(
                                 eventType, Undefined, subscriptions, ctx, config)]]
    /\ UNCHANGED <<OtherVars, config, ValidateVars>>

InitRoute ==
    /\ remote = (RepoScope :> <<>>)
    /\ nextId = 1
    /\ hostname = ""
    /\ whConfig = NoWebhooksConfig
    /\ ctx \in BOOLEAN
    /\ subscriptions \in RouteSubscriptions
    /\ storage = FALSE
    /\ table = <<>>
    /\ legacyFile = [state |-> "absent", content |-> <<>>]
    /\ last = NoOp
    /\ prev = NoPrev
    /\ vOrg = ""
    /\ vRes = FALSE
    /\ config \in GitHubConfigs
    /\ route = NoRoute
    /\ handlers = NoHandlers
    /\ pluginCtx = NoEmitter
    /\ removed = {}
    /\ tasks = NoTasks

NextRoute == HandleWebhook \/ ResolveSession

SpecRoute == InitRoute /\ [][NextRoute]_vars

---------------------------------------------------------------------------
(* Event routing: properties of SpecRoute *)

\* The event reached the resolver: a resolveSession call, or a handleWebhook
\* call whose event has a type
Resolved ==
    \/ route.op = "resolveSession"
    \/ route.op = "handleWebhook" /\ route.eventType \notin {"", Undefined}

Blank(x) == \A i \in 1..Len(x) : CharAt(x, i) \in Whitespace

\* The routing table the plugin has: none before init or without configuration
Table == IF ctx /\ config.present /\ config.hasRouting THEN config.routing ELSE <<>>

TableHas(key) == key \in DOMAIN Table /\ ~Blank(Table[key])

LegacyField(eventType) ==
    IF ~(ctx /\ config.present) THEN Undefined
    ELSE IF eventType \in {"pull_request", "pull_request_review"}
    THEN config.prReviewSession
    ELSE IF eventType \in {"release", "push"} THEN config.releaseSession
    ELSE Undefined

HasOverride(repo) ==
    /\ repo \in DOMAIN subscriptions
    /\ subscriptions[repo].session \notin {Undefined, ""}

\* C11: session resolution is first-match-wins: the override of the
\* originating repository's record, then the routing-table entry of the exact
\* event type if non-blank, then the wildcard entry if non-blank, then the
\* legacy field of the event type, then none; blank table values are skipped.
C11_FirstMatchWins ==
    Resolved =>
        route.res.session =
            IF HasOverride(route.full_name)
            THEN subscriptions[route.full_name].session
            ELSE IF TableHas(route.eventType) THEN Table[route.eventType]
            ELSE IF TableHas("*") THEN Table["*"]
            ELSE IF LegacyField(route.eventType) # Undefined
            THEN LegacyField(route.eventType)
            ELSE ""

\* A blank exact entry is skipped and the wildcard answers
C11_Witness ==
    /\ route.op = "handleWebhook"
    /\ route.eventType = "pull_request"
    /\ route.full_name = "p/q"
    /\ "pull_request" \in DOMAIN Table /\ Table["pull_request"] = " "
    /\ HasOverride("o/r")
    /\ config.prReviewSession = "P"
    /\ route.res = [routed |-> TRUE, session |-> "B", reason |-> ""]

\* C12: handleWebhook with an absent or empty eventType returns routed false
\* with reason "Missing event type" under every routing configuration and
\* payload, a reason no event with a type gets.
C12_MissingEventType ==
    route.op = "handleWebhook" =>
        /\ route.eventType \in {"", Undefined} =>
              route.res = [routed |-> FALSE, session |-> "",
                           reason |-> MissingEventType]
        /\ route.eventType \notin {"", Undefined} =>
              /\ route.res.reason # MissingEventType
              /\ ~route.res.routed =>
                    route.res.reason = NoSessionFor(route.eventType)

\* An empty event type while the table has a "" entry and a wildcard
C12_Witness ==
    /\ route.op = "handleWebhook"
    /\ route.eventType = ""
    /\ TableHas("") /\ TableHas("*")
    /\ HasOverride(route.full_name)
    /\ route.res.reason = MissingEventType

---------------------------------------------------------------------------
(* Repository scope: subscribing an untracked repository *)

\* subscribeRepo succeeded on a repository the store did not track
SubscribedNew ==
    /\ last'.op = "subscribeRepo"
    /\ ~Held(last'.arg)
    /\ last'.res.success

\* The record the claim describes, for each time the clock may show
RecordsOf(l) ==
    {[repo |-> l.arg, webhookId |-> l.res.webhookId,
      events |-> IF l.opt.events = Undefined
                 THEN <<"push", "pull_request", "pull_request_review", "issues",
                        "issue_comment">>
                 ELSE l.opt.events,
      session |-> l.opt.session, createdAt |-> now] : now \in Times}

\* GitHub holds a hook with the id and the URL the run returned
RemoteHolds(hooks, l) ==
    \E i \in 1..Len(hooks) : hooks[i].id = l.res.webhookId /\ hooks[i].url = l.url

InMemory ==
    /\ last'.arg \in DOMAIN subscriptions'
    /\ subscriptions'[last'.arg] \in RecordsOf(last')
    /\ \A k \in DOMAIN subscriptions : k \in DOMAIN subscriptions'
                                        /\ subscriptions'[k] = subscriptions[k]
    /\ DOMAIN subscriptions' = DOMAIN subscriptions \cup {last'.arg}
    /\ last'.res.webhookUrl = last'.url
    /\ RemoteHolds(remote'["repos/" \o last'.arg], last')

\* C16 as stated: a successful subscribeRepo on an untracked repository leaves
\* one record for it in memory and in the structured store, with the id the
\* remote platform returned, the events given or else the default list, and
\* the session given.
C16_RecordAsClaimed ==
    SubscribedNew =>
        /\ InMemory
        /\ last'.arg \in DOMAIN table'
        /\ table'[last'.arg] = subscriptions'[last'.arg]

C16_Original == [][C16_RecordAsClaimed]_vars

\* C16, amended: a successful subscribeRepo on an untracked repository leaves
\* one record for it in memory, with the id the remote platform returned, the
\* events given or else the default list, and the session given; with storage
\* held it calls storage.put with that record, which is then in the structured
\* store when the call succeeds; without storage, or when the call throws, the
\* structured store is left as it was.
C16_RecordCreated ==
    SubscribedNew =>
        /\ InMemory
        /\ IF storage /\ IoDone(last'.io, "put", last'.arg, TRUE)
           THEN table' = Put(table, last'.arg, subscriptions'[last'.arg])
           ELSE /\ table' = table
                /\ storage => IoDone(last'.io, "put", last'.arg, FALSE)

C16_Record == [][C16_RecordCreated]_vars

\* a hook was created and the record, with the options given, is in both
C16_Witness ==
    /\ last.op = "subscribeRepo"
    /\ last.res.success
    /\ IssuedOk(last.calls, "create")
    /\ last.opt.session = "s1"
    /\ storage
    /\ Held(last.arg)
    /\ subscriptions[last.arg].events = <<"push">>
    /\ subscriptions[last.arg].webhookId = last.res.webhookId
    /\ last.arg \in DOMAIN table
    /\ table[last.arg] = subscriptions[last.arg]

---------------------------------------------------------------------------
(* Repository scope: adoption *)

\* subscribeRepo on an untracked repository got as far as listing its hooks
SubscribeLooked ==
    /\ last'.op = "subscribeRepo"
    /\ ~Held(last'.arg)
    /\ Issued(last'.calls, "list")
    /\ ("repos/" \o last'.arg) \in DOMAIN remote

HooksOf(repo) == remote["repos/" \o repo]

Adopted ==
    /\ ~Issued(last'.calls, "create")
    /\ last'.res = Ok(last'.url, FirstWithUrl(HooksOf(last'.arg), last'.url))
    /\ last'.arg \in DOMAIN subscriptions'
    /\ subscriptions'[last'.arg].webhookId = last'.res.webhookId

\* C17 as stated: subscribeRepo on an untracked repository whose hooks include
\* one with exactly the desired URL issues no create call, returns that
\* hook's id and creates the record with that id.
C17_AdoptionAsClaimed ==
    (SubscribeLooked /\ ExactExists(HooksOf(last'.arg), last'.url)) => Adopted

C17_AdoptsListedHook ==
    (/\ SubscribeLooked
     /\ ExactExists(HooksOf(last'.arg), last'.url)
     /\ ListCall(last'.calls, 1).ok) =>
        /\ Adopted
        /\ remote' = remote

---------------------------------------------------------------------------
(* Repository scope: a hook with the suffix and a stale host *)

\* C18: when every gh call of a subscribeRepo on an untracked repository
\* succeeds and the repository has a hook with the {basePath}/github suffix
\* but not the desired URL, subscribeRepo issues no create call and the
\* repository has no more hooks with that suffix than before.
C18_StaleReusedAsClaimed ==
    (/\ SubscribeLooked
     /\ AllCallsOk(last'.calls)
     /\ StaleExists(HooksOf(last'.arg))
     /\ ~ExactExists(HooksOf(last'.arg), last'.url)) =>
        /\ ~Issued(last'.calls, "create")
        /\ Cardinality(SuffixHooks(remote'["repos/" \o last'.arg]))
               <= Cardinality(SuffixHooks(HooksOf(last'.arg)))

C18_StaleReuse == [][C18_StaleReusedAsClaimed]_vars

\* what the code leaves instead: a second hook with the suffix, the stale one
\* still there
C18_SecondHook ==
    /\ last.op = "subscribeRepo"
    /\ last.res.success
    /\ AllCallsOk(last.calls)
    /\ IssuedOk(last.calls, "create")
    /\ Cardinality(SuffixHooks(remote["repos/" \o last.arg])) = 2
    /\ Cardinality(HooksWithUrl(remote["repos/" \o last.arg], last.url)) = 1

---------------------------------------------------------------------------
(* Repository scope: unsubscribing *)

\* C19: unsubscribeRepo for a repository with no record returns the
\* NotSubscribed failure as its result, runs gh not at all (not even
\* gh auth status), touches no storage and leaves the records, the structured
\* store and GitHub's hooks unchanged.
C19_UntrackedRefused ==
    (last'.op = "unsubscribeRepo" /\ ~Held(last'.arg)) =>
        /\ last'.res = Fail("NotSubscribed")
        /\ last'.calls = <<>>
        /\ last'.io = <<>>
        /\ subscriptions' = subscriptions
        /\ table' = table
        /\ remote' = remote

C19_NotSubscribed == [][C19_UntrackedRefused]_vars

\* refused for one repository while another one is tracked and stored
C19_Witness ==
    /\ last.op = "unsubscribeRepo"
    /\ last.res = Fail("NotSubscribed")
    /\ last.calls = <<>>
    /\ ~Held(last.arg)
    /\ subscriptions # <<>>
    /\ table # <<>>

\* The DELETE was issued and GitHub answered success or not-found
DeleteSettled(calls) ==
    \E i \in 1..Len(calls) :
        /\ calls[i].kind = "delete"
        /\ \/ calls[i].ok
           \/ Includes(calls[i].stdout, "Not Found")
           \/ Includes(calls[i].stdout, "404")

\* C20: unsubscribeRepo for a tracked repository removes the record, from
\* memory or from the structured store, only in a run whose remote delete
\* returned success or not-found, after a successful gh auth status; when the
\* authentication fails (NotAuthenticated, no delete issued) or the delete
\* fails otherwise (RemoteCallFailed) it returns failure, calls no storage
\* method and leaves the record in memory and the structured store unchanged.
C20_RemoveAfterDelete ==
    (last'.op = "unsubscribeRepo" /\ Held(last'.arg)) =>
        /\ DeleteSettled(last'.calls) => IssuedOk(last'.calls, "auth")
        /\ (\/ last'.arg \notin DOMAIN subscriptions'
            \/ table' # table
            \/ last'.io # <<>>
            \/ last'.res.success) => DeleteSettled(last'.calls)
        /\ ~DeleteSettled(last'.calls) =>
               /\ subscriptions' = subscriptions
               /\ last'.res = IF IssuedOk(last'.calls, "auth")
                              THEN Fail("RemoteCallFailed")
                              ELSE Fail("NotAuthenticated")
               /\ IssuedOk(last'.calls, "auth") <=> Issued(last'.calls, "delete")

C20_DeleteThenRemove == [][C20_RemoveAfterDelete]_vars

\* GitHub refused the delete and the record is where it was, in both
C20_Witness ==
    /\ last.op = "unsubscribeRepo"
    /\ last.res = Fail("RemoteCallFailed")
    /\ Issued(last.calls, "delete")
    /\ ~DeleteSettled(last.calls)
    /\ Held(last.arg)
    /\ storage
    /\ last.arg \in DOMAIN table
    /\ table[last.arg] = subscriptions[last.arg]

---------------------------------------------------------------------------
(* Loading at init: properties of SpecStore *)

InitStep == last'.op = "init"

\* The subscriptions ctx.getConfig() held when init ran
ConfigSubs(l) == l.opt.subscriptions

ListedRows == storage' /\ IoDone(last'.io, "list", "", TRUE)

\* What the second and the third tier of loadSubscriptions leave in memory
AfterFile ==
    IF ListedRows /\ table # <<>> THEN table ELSE ConfigSubs(last')

\* C21: when the legacy file exists but cannot be read or parsed, init leaves
\* the file as it is and never calls unlinkSync, takes nothing from it, and
\* goes on to the structured store (storage.list is its first storage call,
\* and its rows are what memory holds when there are any) and then to the
\* subscriptions of the configuration.
C21_CorruptFileSkipped ==
    (InitStep /\ legacyFile.state = "corrupt") =>
        /\ legacyFile' = legacyFile
        /\ "unlink" \notin IoKinds(last'.io)
        /\ storage' => last'.io # <<>> /\ last'.io[1].kind = "list"
        /\ subscriptions' = AfterFile

C22_RowsLoaded ==
    (InitStep /\ legacyFile.state = "absent" /\ ListedRows /\ table # <<>>) =>
        /\ listSubscriptions(subscriptions') = listSubscriptions(table)
        /\ DOMAIN subscriptions' = DOMAIN table
        /\ "put" \notin IoKinds(last'.io)
        /\ table' = table

C22_StorageTier == [][C22_RowsLoaded]_vars

C22_Witness ==
    /\ last.op = "init"
    /\ legacyFile.state = "absent"
    /\ IoDone(last.io, "list", "", TRUE)
    /\ subscriptions = ("o/r" :> OldSub("o/r", 1))
    /\ table = subscriptions
    /\ ConfigSubs(last) = ("o/r" :> OldSub("o/r", 2)) @@ ("p/q" :> OldSub("p/q", 7))

\* init with no legacy file, storage held and storage.list returning no row
BootstrapStep ==
    InitStep /\ legacyFile.state = "absent" /\ ListedRows /\ table = <<>>

\* C23 as stated: with no legacy file and an empty structured store, after
\* init memory holds exactly the subscriptions of the configuration and each
\* of them is in the structured store.
C23_BootstrapAsClaimed ==
    BootstrapStep =>
        /\ subscriptions' = ConfigSubs(last')
        /\ table' = ConfigSubs(last')

C23_Original == [][C23_BootstrapAsClaimed]_vars

\* C23, amended: with no legacy file and an empty structured store, after
\* init memory holds exactly the subscriptions of the configuration and
\* storage.put has been called for each of them; the structured store holds
\* exactly those whose put succeeded.
C23_BootstrapDone ==
    BootstrapStep =>
        /\ subscriptions' = ConfigSubs(last')
        /\ \A k \in DOMAIN ConfigSubs(last') :
              \/ /\ IoDone(last'.io, "put", k, TRUE)
                 /\ k \in DOMAIN table' /\ table'[k] = ConfigSubs(last')[k]
              \/ /\ IoDone(last'.io, "put", k, FALSE)
                 /\ k \notin DOMAIN table'
        /\ DOMAIN table' \subseteq DOMAIN ConfigSubs(last')

C23_Bootstrap == [][C23_BootstrapDone]_vars

\* the first run: both subscriptions of the configuration went to storage
C23_Witness ==
    /\ last.op = "init"
    /\ legacyFile.state = "absent"
    /\ IoDone(last.io, "list", "", TRUE)
    /\ IoDone(last.io, "put", "o/r", TRUE)
    /\ IoDone(last.io, "put", "p/q", TRUE)
    /\ DOMAIN subscriptions = {"o/r", "p/q"}
    /\ table = subscriptions
    /\ subscriptions = ConfigSubs(last)

---------------------------------------------------------------------------
(* Without the storage capability: properties of SpecLife *)

\* How often a run gave the warning
Warnings(l, message) == Cardinality({i \in 1..Len(l.warned) : l.warned[i] = message})

StorageCalls(io) == {i \in 1..Len(io) : io[i].kind \in {"list", "put", "delete"}}

\* init on a context without storage: it completes, warns once, calls no
\* storage method and, no legacy file being there to migrate, holds the
\* subscriptions of the configuration
DegradedInit ==
    (InitStep /\ ~storage') =>
        /\ last'.res = Completed
        /\ ctx' /\ pluginCtx'.extension
        /\ Warnings(last', "Storage API not available") = 1
        /\ StorageCalls(last'.io) = {}
        /\ table' = table
        /\ legacyFile.state # "readable" => subscriptions' = ConfigSubs(last')

\* subscribe and unsubscribe after it: memory only, no warning, and success
\* whenever GitHub did its part
MemoryOnlyOps ==
    (last'.op \in {"subscribeRepo", "unsubscribeRepo"} /\ ~storage) =>
        /\ ~storage'
        /\ last'.io = <<>>
        /\ last'.warned = <<>>
        /\ table' = table
        /\ (last'.op = "subscribeRepo" /\ ~Held(last'.arg) /\ AllCallsOk(last'.calls))
              => /\ last'.res.success
                 /\ last'.arg \in DOMAIN subscriptions'
                 /\ subscriptions'[last'.arg].webhookId = last'.res.webhookId
        /\ (last'.op = "unsubscribeRepo" /\ Held(last'.arg)
                /\ (AllCallsOk(last'.calls) \/ DeleteSettled(last'.calls)))
              => /\ last'.res.success
                 /\ last'.arg \notin DOMAIN subscriptions'

---------------------------------------------------------------------------
(* Repository scope: a storage call that throws *)

\* The operation's storage.put or storage.delete threw
PersistenceFailed ==
    /\ last'.op \in RepoOps
    /\ \/ IoDone(last'.io, "put", last'.arg, FALSE)
       \/ IoDone(last'.io, "delete", last'.arg, FALSE)

\* C25: when storage.put or storage.delete throws during subscribeRepo,
\* unsubscribeRepo or updateRepoWebhook, the operation returns success and
\* memory keeps the change: the new record with the id returned, no record
\* after unsubscribeRepo, the record with the patched hook's id after
\* updateRepoWebhook; the structured store is left as it was.
C25_ChangeKept ==
    PersistenceFailed =>
        /\ last'.res.success
        /\ table' = table
        /\ IF last'.op = "unsubscribeRepo"
           THEN Held(last'.arg) /\ last'.arg \notin DOMAIN subscriptions'
           ELSE /\ last'.arg \in DOMAIN subscriptions'
                /\ subscriptions'[last'.arg].webhookId = last'.res.webhookId
        /\ last'.op = "subscribeRepo" => ~Held(last'.arg)
        /\ last'.op = "updateRepoWebhook" => IssuedOk(last'.calls, "patch")

C25_PersistenceNonFatal == [][C25_ChangeKept]_vars

\* the hook is deleted and the record gone from memory although
\* storage.delete threw and the row is still in the table
C25_Witness ==
    /\ last.op = "unsubscribeRepo"
    /\ last.res.success
    /\ IssuedOk(last.calls, "delete")
    /\ IoDone(last.io, "delete", last.arg, FALSE)
    /\ ~Held(last.arg)
    /\ last.arg \in DOMAIN table

---------------------------------------------------------------------------
(* Listeners and the extension: properties of SpecLife *)

\* C28: whatever init and shutdown calls were made, the context's emitter
\* holds at most one listener of the plugin for webhooks:ready and at most
\* one for funnel:hostname-changed, and none unless init set the handlers;
\* after shutdown it holds none, the handlers are null, memory holds no
\* subscription and the github extension is not registered.
C28_ListenersBounded ==
    /\ pluginCtx.ready <= 1
    /\ pluginCtx.changed <= 1
    /\ pluginCtx.ready = (IF handlers.webhooksReadyHandler THEN 1 ELSE 0)
    /\ pluginCtx.changed = (IF handlers.hostnameChangedHandler THEN 1 ELSE 0)
    /\ last.op = "shutdown" =>
          /\ pluginCtx.ready = 0
          /\ pluginCtx.changed = 0
          /\ handlers = NoHandlers
          /\ subscriptions = <<>>
          /\ ~pluginCtx.extension
          /\ ~ctx /\ ~storage

\* init ran again on a plugin that an earlier init had started (a hook was
\* created in between): still one listener for each event
C28_Witness ==
    /\ last.op = "init"
    /\ pluginCtx.events
    /\ nextId > 1
    /\ pluginCtx.ready = 1
    /\ pluginCtx.changed = 1
    /\ pluginCtx.extension

---------------------------------------------------------------------------
(* The signals: properties of SpecSignal *)

Count(calls, kind) == Cardinality({i \in 1..Len(calls) : calls[i].kind = kind})

ValidOrgs(orgs) == {i \in 1..Len(orgs) : validateOrg(orgs[i])}

Failed(results) == {i \in 1..Len(results) : ~results[i].res.success}

\* The results are those of one run for each organization, in order
OnePerOrg(results, orgs) ==
    /\ Len(results) >= Len(orgs)
    /\ \A i \in 1..Len(orgs) : results[i].scope = orgs[i]

\* C26: when webhooks:ready is delivered and a desired URL is available,
\* setupOrgWebhook runs once for every organization of the configuration, in
\* order, whatever the runs before it returned: there is one result for each
\* organization, one gh auth status for each that passes validation, and
\* one warning for each that failed.
C26_EveryOrgSetUp ==
    (last'.op = "webhooks:ready" /\ getWebhookUrl(Env) # "") =>
        /\ Len(last'.results) = Len(handlers.orgs)
        /\ OnePerOrg(last'.results, handlers.orgs)
        /\ Count(last'.calls, "auth") = Cardinality(ValidOrgs(handlers.orgs))
        /\ Warnings(last', "Auto-setup webhook failed")
               = Cardinality(Failed(last'.results))

C26_ReadyRunsAll == [][C26_EveryOrgSetUp]_vars

\* GitHub refused the first organization's hook, and the second organization
\* was set up all the same
C26_Witness ==
    /\ last.op = "webhooks:ready"
    /\ Len(last.results) = 2
    /\ last.results[1].res = Fail("RemoteCallFailed")
    /\ last.results[2].res.success
    /\ Len(remote[BetaScope]) = 1
    /\ remote[BetaScope][1].id = last.results[2].res.webhookId

\* C27: when funnel:hostname-changed is delivered, updateOrgWebhook runs once
\* for every organization of the configuration and then updateRepoWebhook
\* once for every repository memory tracked when the signal came, whatever
\* the runs before returned: there is one result for each, one gh auth status
\* for each organization that passes validation, and a listing of the hooks
\* of every tracked repository.
C27_EveryScopeUpdated ==
    last'.op = "funnel:hostname-changed" =>
        LET orgs  == handlers.orgs
            repos == DOMAIN subscriptions
            res   == last'.results
        IN /\ Len(res) = Len(orgs) + Cardinality(repos)
           /\ OnePerOrg(res, orgs)
           /\ \A repo \in repos :
                 Cardinality({j \in (Len(orgs) + 1)..Len(res) : res[j].scope = repo}) = 1
           /\ Count(last'.calls, "auth") = Cardinality(ValidOrgs(orgs))
           /\ whConfig.present =>
                 \A repo \in repos :
                    \E i \in 1..Len(last'.calls) :
                       /\ last'.calls[i].kind = "list"
                       /\ last'.calls[i].path = "repos/" \o repo \o "/hooks"
           /\ DOMAIN subscriptions' = repos

C27_ChangeRunsAll == [][C27_EveryScopeUpdated]_vars

\* an organization and a repository could not be updated, and the repository
\* that could be was
C27_Witness ==
    /\ last.op = "funnel:hostname-changed"
    /\ Len(last.results) = 4
    /\ ~last.results[1].res.success
    /\ \E i, j \in 3..4 :
          /\ ~last.results[i].res.success
          /\ last.results[j].res.success
          /\ last.results[j].scope = "o/r"
          /\ IssuedOk(last.calls, "patch")
          /\ \E k \in 1..Len(remote[RepoScope]) :
                remote[RepoScope][k].url = last.url

---------------------------------------------------------------------------
(* Organization setup under failing calls: properties of SpecOrg *)

SetupOfOrg ==
    OpStep /\ last'.op = "setupOrgWebhook" /\ ("orgs/" \o last'.arg) \in DOMAIN remote

OrgHooks == remote["orgs/" \o last'.arg]

OrgHooksAfter == remote'["orgs/" \o last'.arg]

\* C29: a setupOrgWebhook on an organization that holds at most one
\* registration with the desired URL leaves it with at most one, whichever of
\* the run's list, patch and create calls fail.
C29_AtMostOneDesired ==
    (/\ SetupOfOrg
     /\ last'.url # ""
     /\ Cardinality(HooksWithUrl(OrgHooks, last'.url)) <= 1) =>
        Cardinality(HooksWithUrl(OrgHooksAfter, last'.url)) <= 1

C29_Idempotent == [][C29_AtMostOneDesired]_vars

\* what the code leaves when the listings fail: the organization had one
\* registration with the desired URL and no other, and a second was created
C29_Duplicate ==
    /\ last.op = "setupOrgWebhook"
    /\ last.res.success
    /\ Len(remote[OrgScope]) = 2
    /\ remote[OrgScope][1].url = last.url
    /\ remote[OrgScope][2].url = last.url
    /\ remote[OrgScope][2].id = last.res.webhookId
    /\ ~IssuedOk(last.calls, "list")
    /\ ~Issued(last.calls, "patch")

PatchFailed(calls) == \E i \in 1..Len(calls) : calls[i].kind = "patch" /\ ~calls[i].ok

\* C30: when a setupOrgWebhook run patches a registration it found by the
\* suffix and the patch call fails, the run logs a warning and issues the
\* create call; if that call succeeds with an id that parses, the run returns
\* success with the new id, and the organization holds the registrations it
\* had, unchanged, followed by the new one.  Its failure, when it fails, is
\* the create's.
C30_FallsThrough ==
    (SetupOfOrg /\ PatchFailed(last'.calls)) =>
        /\ StaleExists(OrgHooks)
        /\ Warnings(last', "Failed to update stale webhook") = 1
        /\ Issued(last'.calls, "create")
        /\ last'.calls[Len(last'.calls)].kind = "create"
        /\ IssuedOk(last'.calls, "create") =>
              /\ OrgHooksAfter = Append(OrgHooks, [id |-> nextId, url |-> last'.url])
              /\ last'.res.success => last'.res = Ok(last'.url, nextId)
              /\ ~last'.res.success => last'.res = Fail("InvalidResponseFormat")
        /\ ~IssuedOk(last'.calls, "create") =>
              /\ OrgHooksAfter = OrgHooks
              /\ last'.res = Fail("RemoteCallFailed")

C30_PatchFailureCreates == [][C30_FallsThrough]_vars

\* the patch of the one stale registration failed; it is still there, next
\* to the registration the run created and returned
C30_Witness ==
    /\ last.op = "setupOrgWebhook"
    /\ PatchFailed(last.calls)
    /\ IssuedOk(last.calls, "create")
    /\ last.res.success
    /\ Len(remote[OrgScope]) = 2
    /\ remote[OrgScope][1].url # last.url
    /\ EndsWith(remote[OrgScope][1].url, Suffix)
    /\ remote[OrgScope][2] = [id |-> last.res.webhookId, url |-> last.url]

---------------------------------------------------------------------------
(* The legacy file and the structured store: properties of SpecStore *)

ReadableLoad == InitStep /\ legacyFile.state = "readable"

Persisted(subs, t) == \A k \in DOMAIN subs : k \in DOMAIN t /\ t[k] = subs[k]

\* C31: an init that finds a readable legacy file leaves the file absent only
\* when every entry of it is in the structured store, and every subscription
\* memory holds afterwards is in the structured store or still in the file.
C31_FileOutlivesFailure ==
    ReadableLoad =>
        /\ legacyFile'.state = "absent" => Persisted(legacyFile.content, table')
        /\ \A k \in DOMAIN subscriptions' :
              k \in DOMAIN table' \/ k \in DOMAIN legacyFile'.content

C31_DeleteAfterPersist == [][C31_FileOutlivesFailure]_vars

\* what the code leaves without storage or after a put that threw: the file
\* is gone and a subscription from it is in memory alone
C31_MemoryAlone ==
    /\ last.op = "init"
    /\ IoDone(last.io, "unlink", "subscriptions.json", TRUE)
    /\ legacyFile.state = "absent"
    /\ "o/r" \in DOMAIN subscriptions
    /\ "o/r" \notin DOMAIN table

StoreInit ==
    /\ InitStep
    /\ storage'
    /\ \A i \in 1..Len(last'.io) : last'.io[i].ok

\* C35 as stated: after an init with storage held and every storage and file
\* call succeeding, memory and the table have the same repositories.
C35_SameKeysAsClaimed == StoreInit => DOMAIN subscriptions' = DOMAIN table'

C35_Original == [][C35_SameKeysAsClaimed]_vars

\* C35, amended: after such an init memory and the table have the same
\* repositories when no readable legacy file was there; when one was, memory
\* has the file's repositories and the table has those and the ones it had.
C35_KeysAfterInit ==
    StoreInit =>
        IF legacyFile.state = "readable"
        THEN /\ DOMAIN subscriptions' = DOMAIN legacyFile.content
             /\ DOMAIN table' = (DOMAIN legacyFile.content) \cup (DOMAIN table)
        ELSE DOMAIN subscriptions' = DOMAIN table'

C35_SameKeys == [][C35_KeysAfterInit]_vars

\* a migration of two entries over a table that had one of them
C35_Witness ==
    /\ last.op = "init"
    /\ storage
    /\ \A i \in 1..Len(last.io) : last.io[i].ok
    /\ IoDone(last.io, "put", "p/q", TRUE)
    /\ IoDone(last.io, "unlink", "subscriptions.json", TRUE)
    /\ DOMAIN subscriptions = {"o/r", "p/q"}
    /\ DOMAIN table = {"o/r", "p/q"}

---------------------------------------------------------------------------
(* Unsubscribing across restarts: a property of SpecLife *)

\* C36: a repository the extension's unsubscribeRepo removed, with no
\* successful subscribeRepo for it since, is neither in memory nor in the
\* structured store, whatever shutdowns and inits came in between.
C36_StaysAbsent ==
    \A repo \in removed :
        repo \notin DOMAIN subscriptions /\ repo \notin DOMAIN table

\* what the code leaves: an init whose storage calls all succeeded, with no
\* legacy file left, has the repository back from the configuration
C36_BackFromConfig ==
    /\ last.op = "init"
    /\ "o/r" \in removed
    /\ "o/r" \in DOMAIN subscriptions
    /\ "o/r" \in DOMAIN table
    /\ legacyFile.state = "absent"
    /\ IoDone(last.io, "list", "", TRUE)
    /\ IoDone(last.io, "put", "o/r", TRUE)
    /\ "o/r" \in DOMAIN ConfigSubs(last)

---------------------------------------------------------------------------
(* What the repository operations leave of the Store: properties of Spec *)

UpdateStep == last'.op = "updateRepoWebhook"

\* The two maps agree everywhere but at one key
SameBut(m1, m2, k) ==
    /\ (DOMAIN m1) \ {k} = (DOMAIN m2) \ {k}
    /\ \A x \in (DOMAIN m1) \ {k} : m1[x] = m2[x]

\* updateRepoWebhook, run in this state for the repository as if memory did
\* not track it, on any verdicts: memory and the table are as they were
UntrackedUntouched(repo) ==
    \A old \in Hosts \ {hostname}, o \in UpdateRepoOutcomes :
        LET r == [RunNow EXCEPT !.subs = Remove(@, repo)]
            d == updateRepoWebhook(repo, old, hostname, Env, o, r)
        IN d.run.subs = r.subs /\ d.run.table = r.table /\ d.run.io = <<>>

\* C39: updateRepoWebhook leaves every other repository's record as it was,
\* in memory and in the table; the repository's own record keeps its repo,
\* events, session and createdAt, and the table is as it was or has that
\* record under the repository's key; a failed update leaves memory and the
\* table as they were and calls no storage method; and for a repository
\* memory does not track no record is made.
C39_OnlyWebhookId ==
    UpdateStep =>
        LET repo == last'.arg IN
        /\ UntrackedUntouched(repo)
        /\ DOMAIN subscriptions' = DOMAIN subscriptions
        /\ SameBut(subscriptions', subscriptions, repo)
        /\ SameBut(table', table, repo)
        /\ repo \in DOMAIN subscriptions =>
              /\ subscriptions'[repo] =
                    [subscriptions[repo] EXCEPT !.webhookId = subscriptions'[repo].webhookId]
              /\ table' = table \/ table' = Put(table, repo, subscriptions'[repo])
        /\ ~last'.res.success =>
              subscriptions' = subscriptions /\ table' = table /\ last'.io = <<>>

C39_UpdateFrame == [][C39_OnlyWebhookId]_vars

\* the hook was patched and the record, written again, is what it was
C39_Witness ==
    /\ last.op = "updateRepoWebhook"
    /\ last.res.success
    /\ IssuedOk(last.calls, "patch")
    /\ IoDone(last.io, "put", last.arg, TRUE)
    /\ subscriptions[last.arg].events = <<"push">>
    /\ subscriptions[last.arg].createdAt = "t0"
    /\ subscriptions[last.arg].webhookId = last.res.webhookId
    /\ table[last.arg] = subscriptions[last.arg]

FailureKinds ==
    {"InvalidIdentifier", "NotAuthenticated", "AlreadySubscribed", "NoUrlAvailable",
     "NoTokenConfigured", "RemoteCallFailed", "InvalidResponseFormat"}

\* C38: a subscribeRepo that returns a failure, which is one of the seven,
\* leaves memory and the table as they were and calls no storage method.
C38_FailureTouchesNothing ==
    (last'.op = "subscribeRepo" /\ ~last'.res.success) =>
        /\ last'.res.kind \in FailureKinds
        /\ subscriptions' = subscriptions
        /\ table' = table
        /\ last'.io = <<>>

C38_FailureFrame == [][C38_FailureTouchesNothing]_vars

\* GitHub made the hook and its id could not be read: no record was made
C38_Witness ==
    /\ last.op = "subscribeRepo"
    /\ last.res = Fail("InvalidResponseFormat")
    /\ IssuedOk(last.calls, "create")
    /\ last.arg \notin DOMAIN subscriptions
    /\ last.arg \notin DOMAIN table
    /\ last.io = <<>>
    /\ Len(remote[RepoScope]) >= 1

---------------------------------------------------------------------------
(* The two signals in either order: a property of SpecSignal *)

AcmeConfigured == \E i \in 1..Len(handlers.orgs) : handlers.orgs[i] = "acme"

WritesFor(calls, scope, kind) ==
    {i \in 1..Len(calls) :
        /\ calls[i].kind = kind
        /\ SubSeq(calls[i].path, 1, Len(scope)) = scope}

\* The organization has one registration and every call of the step succeeds
OneHookSignal(op) ==
    /\ last'.op = op
    /\ AcmeConfigured
    /\ whConfig.present
    /\ AllCallsOk(last'.calls)
    /\ Len(remote[OrgScope]) = 1

\* C37: let the organization hold one registration and every remote call
\* succeed.  If the registration is at the URL of another hostname than the
\* current one, webhooks:ready, and as well funnel:hostname-changed from that
\* hostname to the current one, leave exactly that registration, with its
\* id, at the URL of the current hostname, and issue no create for the
\* organization.  If it is at the URL of the current hostname already, either
\* signal leaves it as it is and issues neither create nor patch.  Hence the
\* two signals end in the same remote state in either order.
C37_EitherSignalSettles ==
    LET h       == remote[OrgScope][1]
        desired == HostUrl(hostname', whConfig)
        settled == <<[id |-> h.id, url |-> desired]>>
        stale   == \E o \in Hosts \ {hostname'} : h.url = HostUrl(o, whConfig)
    IN /\ (OneHookSignal("webhooks:ready") /\ stale) =>
              /\ remote'[OrgScope] = settled
              /\ WritesFor(last'.calls, OrgScope, "create") = {}
       /\ (OneHookSignal("funnel:hostname-changed") /\ stale /\ last'.old = h.url) =>
              /\ remote'[OrgScope] = settled
              /\ WritesFor(last'.calls, OrgScope, "create") = {}
       /\ (/\ OneHookSignal("webhooks:ready") \/ OneHookSignal("funnel:hostname-changed")
           /\ h.url = desired) =>
              /\ remote'[OrgScope] = settled
              /\ WritesFor(last'.calls, OrgScope, "create") = {}
              /\ WritesFor(last'.calls, OrgScope, "patch") = {}

C37_SignalsCommute == [][C37_EitherSignalSettles]_vars

\* the hostname had changed with the registration left behind; webhooks:ready
\* moved it, and it is the one registration, with the id it had
C37_Witness ==
    /\ last.op = "webhooks:ready"
    /\ hostname = "h2"
    /\ AllCallsOk(last.calls)
    /\ WritesFor(last.calls, OrgScope, "patch") # {}
    /\ remote[OrgScope] = <<[id |-> 1, url |-> HostUrl("h2", whConfig)]>>

---------------------------------------------------------------------------
(* Overlapping invocations: properties of SpecOverlap and SpecLoad *)

\* Both callers' invocations of op on the same scope overlapped and returned
OverlappedPair(op) ==
    /\ Returned = Callers
    /\ \A c \in Callers : tasks[c].op = op /\ tasks[c].overlap
    /\ tasks[1].arg = tasks[2].arg

\* Every remote call of both invocations succeeded: gh exited with 0 and its
\* answer was one the code could read
AllSucceeded ==
    \A c \in Callers : /\ AllCallsOk(tasks[c].calls)
                       /\ tasks[c].res.kind # "InvalidResponseFormat"

\* C34: two setupOrgWebhook invocations for the same organization and the
\* same desired URL that overlap at their awaits, every remote call of both
\* succeeding, issue at most one create call between them and return the same
\* registration id, successfully.
C34_OneCreate ==
    (OverlappedPair("setupOrgWebhook") /\ AllSucceeded)
    => /\ Count(tasks[1].calls \o tasks[2].calls, "create") <= 1
       /\ \A c \in Callers : tasks[c].res.success
       /\ tasks[1].res.webhookId = tasks[2].res.webhookId
       /\ Cardinality({i \in 1..Len(remote[OrgScope]) :
                          remote[OrgScope][i].url = HostUrl(hostname, whConfig)}) = 1

\* Both overlapped on an organization without a registration: one created it
\* and the other, which was past its awaits later, found it
C34_Witness ==
    /\ OverlappedPair("setupOrgWebhook")
    /\ AllSucceeded
    /\ Count(tasks[1].calls \o tasks[2].calls, "create") = 1
    /\ \A c \in Callers : tasks[c].res.success /\ tasks[c].res.webhookId = 1
    /\ remote[OrgScope] = <<[id |-> 1, url |-> HostUrl("h1", whConfig)]>>

\* The callers whose invocation returned success
Winners == {c \in Callers : tasks[c].res.success}

\* The record of the task's repository holds what the task asked for
KeepsOptionsOf(t) ==
    /\ t.arg \in DOMAIN subscriptions
    /\ subscriptions[t.arg].session = t.opt.session
    /\ subscriptions[t.arg].events =
          (IF t.opt.events = Undefined THEN DEFAULT_REPO_EVENTS ELSE t.opt.events)

\* C33: of two subscribeRepo invocations for the same untracked repository
\* that overlap at their awaits at most one returns success; the other is
\* rejected with AlreadySubscribed, and the stored record keeps the events
\* and the session of the one that succeeded first.
C33_OneWins ==
    OverlappedPair("subscribeRepo")
    => /\ Cardinality(Winners) <= 1
       /\ \A c \in Winners :
             /\ \A e \in Callers \ {c} : tasks[e].res.kind = "AlreadySubscribed"
             /\ (\A e \in Winners : tasks[c].rank <= tasks[e].rank)
                => KeepsOptionsOf(tasks[c])

\* Both overlapping invocations returned success, and the record holds what
\* the second asked for, not what the first did
C33_Overwritten ==
    /\ OverlappedPair("subscribeRepo")
    /\ AllSucceeded
    /\ Winners = Callers
    /\ tasks[1].opt # tasks[2].opt
    /\ \E c \in Callers :
          /\ tasks[c].rank = 0
          /\ ~KeepsOptionsOf(tasks[c])
    /\ Len(remote[RepoScope]) = 1

\* init has called loadSubscriptions, which is suspended at one of its awaits
Loading ==
    \E c \in DOMAIN tasks :
        /\ tasks[c].op = "init"
        /\ tasks[c].pc \in {"persistFile", "list", "persistConfig"}

\* C32: while loadSubscriptions has started and not finished, no operation
\* made through the registered extension runs; every step taken then is
\* init's own.
C32_LoadAlone == [][Loading => last'.op = "init"]_vars

\* listSubscriptions answered with nothing while the load waited for the
\* table's rows, which hold a subscription
C32_SeenHalfLoaded ==
    /\ Loading
    /\ last.op = "listSubscriptions"
    /\ last.results = <<>>
    /\ table # <<>>

\* subscribeRepo ran between two of the load's awaits: it found o/r untracked
\* and created a hook for it, and the load then put the stored row in place
\* of the record it wrote
C32_SubscribedUnderLoad ==
    /\ {1, 2} \subseteq Returned
    /\ tasks[1].op = "init"
    /\ tasks[2].op = "subscribeRepo" /\ tasks[2].overlap /\ tasks[2].res.success
    /\ "o/r" \in DOMAIN subscriptions
    /\ subscriptions["o/r"].webhookId # tasks[2].res.webhookId

====
